---- MODULE Spec2Model ----
(***************************************************************************)
(* Conversion / image store of the image-to-pdf converter and the eight    *)
(* request handlers that read and write it.  Every handler is modelled at  *)
(* the granularity of its awaited statements: one action per `await` (a    *)
(* store statement, a file system call, the timer), with the local         *)
(* computation that runs up to that await (handler entry, guards, building *)
(* the statement or the result) folded into the same step.                 *)
(***************************************************************************)
EXTENDS Integers, Sequences, FiniteSets, TLC

\* ---------------------------------------------------------------- bounds
MaxConv == 2

MaxImg == 2

MaxIndex == 1

MaxBatch == 2

MaxShortBatch == 1

MaxLongBatch == 3

MaxLongIndex == 2

MaxTime == 1

MaxWraps == 2

MaxCalls == 2

MaxRaceConv == 1

MaxManyImg == 3

MaxCompactImg == 4

MaxCompactIndex == 3

MaxGroup == 2

MaxShown == 3

MaxInFlight == 2

MaxSelected == 2

MaxPick == 2

MaxRefused == 1

\* ------------------------------------------------------- program constants
SleepTicks == 1

MAX_FILE_SIZE == 10485760

ACCEPTED_FORMATS == {"jpeg", "png", "webp", "gif"}

\* ------------------------------------------------------------ value sets
PageSizeInputs == {"a4", "letter"}

OrientationInputs == {"portrait", "landscape"}

Slots == 1..MaxCalls

\* one id past the store, for the "not found" branches
ConvIdInputs == 1..(MaxConv + 1)

ImgIdInputs == 1..(MaxImg + 1)

IndexInputs == 0..MaxIndex

\* original_name, file_path, file_size and format of an upload, as one value
MetadataInputs == {"photo.jpeg", "scan.png"}

\* the uploads of the larger specifications all carry the same metadata
ShortMetadataInputs == {"photo.jpeg"}

\* SQL NULL / JS null: a nullable value is <<>> or a one-element sequence
NULL == <<>>

Some(x) == <<x>>

IsNull(x) == x = <<>>

Get(x) == x[1]

\* JS undefined for optional inputs
UNDEFINED == "undefined"

Max(a, b) == IF a >= b THEN a ELSE b

\* ------------------------------------------------------------ error texts
\* An Error's message: `wraps` lists the ids of the
\* "Conversion <id> has already failed: " prefixes, outermost first.
Msg(base, num, word) == [wraps |-> <<>>, base |-> base, num |-> num, word |-> word]

NoImagesMsg == Msg("No images found for conversion", 0, "")

NotFoundMsg(id) == Msg("Conversion with id not found", id, "")

StoreErrorMsg == Msg("store statement rejected", 0, "")

\* `${conversion.error_message}`: a null column is interpolated as "null"
Interpolate(em) == IF IsNull(em) THEN Msg("null", 0, "") ELSE Get(em)

AlreadyFailedMsg(id, em) == [Interpolate(em) EXCEPT !.wraps = <<id>> \o @]

CannotUpdateMsg(status) == Msg("Cannot update conversion with status", 0, status)

CannotUploadMsg(status) == Msg("Cannot upload images to conversion with status", 0, status)

CannotReorderMsg(status) == Msg("Cannot reorder images for conversion in status", 0, status)

ImageNotInConversionMsg(imageId, id) == Msg("Image not found in conversion", imageId, ToString(id))

DuplicateIndicesMsg == Msg("Duplicate order indices are not allowed", 0, "")

\* ------------------------------------------------------------------ state
\* conversions, images, nextImageId: the two tables and the image id serial
\* now:   the clock read by Date.now() / new Date()
\* calls: the handler invocations in flight, one per request slot
\* out:   the outcome handed to the caller by the step just taken
\* hist:  the calls that overlap with one another since the store was last
\*        at rest, and the images table as the first of them found it
\* response: the response to the uploadImage request of ImageUploader, on
\*           its way to the browser
\* preview:  the props and the state of the ImagePreview component
\* uploader: the props and the state of the ImageUploader component, and
\*           what it has handed to its parent
VARIABLES conversions, images, nextImageId, now, calls, out, hist, response,
          preview, uploader

vars == <<conversions, images, nextImageId, now, calls, out, hist, response,
          preview, uploader>>

\* the components of the browser
client == <<preview, uploader>>

\* the server, as a component leaves it when it only changes its own state
server == <<conversions, images, nextImageId, now, calls, out, hist, response>>

store == <<conversions, images, nextImageId>>

\* a request slot with no call in it
Idle == [op |-> "idle", pc |-> "idle"]

NoOutput == [op |-> "none", kind |-> "none"]

NoSnap == [taken |-> FALSE]

\* a new request takes the lowest free slot
Free(p) ==
    /\ out = NoOutput
    /\ calls[p] = Idle
    /\ \A q \in Slots : q < p => calls[q] # Idle

\* the call in slot p is about to execute the statement at pc
At(p, pc) == out = NoOutput /\ calls[p].pc = pc

Alone(p) == \A q \in Slots \ {p} : calls[q] = Idle

\* the store as the handler found it on entry, kept while the call runs alone
Snapshot(p) ==
    IF Alone(p) THEN [taken |-> TRUE, conversions |-> conversions, images |-> images]
    ELSE NoSnap

NewCall(p, op, id) ==
    [op |-> op, pc |-> "entry", id |-> id, from |-> "api", kind |-> "running",
     val |-> 0,
     page_size |-> UNDEFINED, orientation |-> UNDEFINED, order_index |-> 0,
     metadata |-> "", fileExists |-> FALSE,
     image_orders |-> <<>>, i |-> 0, row |-> 0,
     err |-> 0, at |-> "", writeBack |-> "none",
     snap |-> Snapshot(p)]

Forget(c) == IF c = Idle THEN c ELSE [c EXCEPT !.snap = NoSnap]

\* no history is kept
NoHistory == [on |-> FALSE]

\* more than MaxGroup calls overlap: the history of the group is given up
LostHistory == [on |-> TRUE, more |-> TRUE]

NewHistory(imgs, entered) ==
    [on |-> TRUE, more |-> FALSE, images |-> imgs, entered |-> entered,
     returned |-> <<>>]

\* the history once the step of call c in slot p is taken: a call that enters
\* while no other call runs starts a new group of overlapping calls
Entered(p, c) ==
    IF ~hist.on \/ c.pc # "entry" THEN hist
    ELSE IF Alone(p) THEN NewHistory(images, <<[op |-> c.op, id |-> c.id]>>)
    ELSE IF hist.more \/ Len(hist.entered) >= MaxGroup THEN LostHistory
    ELSE [hist EXCEPT !.entered = Append(@, [op |-> c.op, id |-> c.id])]

\* the history once call c has settled with v
Settled(h, c, kind, v) ==
    IF ~h.on \/ h.more THEN h
    ELSE [h EXCEPT !.returned =
             Append(@, [op |-> c.op, id |-> c.id, kind |-> kind, val |-> v])]

\* the call in slot p goes on as c
Continue(p, c, pc) ==
    /\ calls' = [q \in Slots |-> IF q = p THEN [c EXCEPT !.pc = pc]
                                 ELSE IF c.pc = "entry" THEN Forget(calls[q])
                                 ELSE calls[q]]
    /\ out' = NoOutput
    /\ hist' = Entered(p, c)
    /\ UNCHANGED <<response, client>>

\* the call in slot p ends: its outcome goes to the caller, the slot is free
Finish(p, c, kind, v) ==
    /\ calls' = [q \in Slots |-> IF q = p THEN Idle
                                 ELSE IF c.pc = "entry" THEN Forget(calls[q])
                                 ELSE calls[q]]
    /\ IF c.from = "uploader"
       THEN out' = NoOutput /\ response' = Some([kind |-> kind, val |-> v])
       ELSE out' = [c EXCEPT !.pc = "done", !.kind = kind, !.val = v]
            /\ UNCHANGED response
    /\ hist' = Settled(Entered(p, c), c, kind, v)
    /\ UNCHANGED client

Return(p, c, v) == Finish(p, c, "return", v)

Throw(p, c, m) == Finish(p, c, "throw", m)

\* no handler of ImagePreview has run since the component was last rendered
NoEvent == [by |-> "none"]

\* ImagePreview as mounted with no images (part_000 lines 22-29)
NewPreview ==
    [images |-> <<>>, disabled |-> FALSE, isReordering |-> FALSE,
     draggedIndex |-> NULL, requests |-> <<>>, last |-> NoEvent]

\* no call of uploadFiles has been made
NoRun == [pc |-> "none"]

\* ImageUploader as mounted for conversion 1 (part_000 lines 256-266)
NewUploader ==
    [conversionId |-> 1, disabled |-> FALSE, demoMode |-> FALSE,
     pendingUploads |-> <<>>, nextPendingId |-> 1, isUploading |-> FALSE,
     uploadError |-> NULL, run |-> NoRun, reported |-> {}, stored |-> <<>>]

Exists(id) == id \in DOMAIN conversions

ImagesOf(imgs, id) == {k \in DOMAIN imgs : imgs[k].conversion_id = id}

Init ==
    /\ conversions = <<>>
    /\ images = <<>>
    /\ nextImageId = 1
    /\ now = 0
    /\ calls = [p \in Slots |-> Idle]
    /\ out = NoOutput
    /\ hist = NoHistory
    /\ response = NULL
    /\ preview = NewPreview
    /\ uploader = NewUploader

\* the same state, with the history of overlapping calls being kept
InitHistory ==
    /\ conversions = <<>>
    /\ images = <<>>
    /\ nextImageId = 1
    /\ now = 0
    /\ calls = [p \in Slots |-> Idle]
    /\ out = NoOutput
    /\ hist = NewHistory(<<>>, <<>>)
    /\ response = NULL
    /\ preview = NewPreview
    /\ uploader = NewUploader

\* ------------------------------------------------------- createConversion
\* the settings of the input are replaced by fixed ones
NewConversion_FixedSettings(id, ps, o, t) ==
    [id |-> id, page_size |-> "a4", orientation |-> "portrait", status |-> "pending",
     pdf_file_path |-> NULL, error_message |-> NULL,
     created_at |-> t, completed_at |-> NULL]

NewConversion(id, ps, o, t) ==
    [id |-> id, page_size |-> ps, orientation |-> o, status |-> "pending",
     pdf_file_path |-> NULL, error_message |-> NULL,
     created_at |-> t, completed_at |-> NULL]

\* create_conversion.ts lines 13-24
CreateConversion(p) ==
    /\ Free(p)
    /\ Len(conversions) < MaxConv
    /\ \E ps \in PageSizeInputs, o \in OrientationInputs :
          LET c == [NewCall(p, "createConversion", 0)
                       EXCEPT !.page_size = ps, !.orientation = o]
              row == NewConversion(Len(conversions) + 1, ps, o, now)
          IN /\ conversions' = Append(conversions, row)
             /\ Return(p, c, row)
    /\ UNCHANGED <<images, nextImageId, now>>

\* ------------------------------------------------------ processConversion
\* control leaves the try block of lines 12-94 with error m, thrown by the
\* statement `at`, and enters the catch block of line 96
Raise(p, c, m, at) == Continue(p, [c EXCEPT !.err = m, !.at = at], "proc_catch")

\* a failed conversion is processed again instead of being refused
AfterProcSelect_RetriesFailed(p, c) ==
    IF ~Exists(c.id)
      THEN Raise(p, c, NotFoundMsg(c.id), "proc_select")
    ELSE IF conversions[c.id].status = "completed"
      THEN Return(p, c, conversions[c.id])
    ELSE Continue(p, c, "proc_set_processing")

\* a completed conversion is processed again instead of being returned
AfterProcSelect_ReprocessesCompleted(p, c) ==
    IF ~Exists(c.id)
      THEN Raise(p, c, NotFoundMsg(c.id), "proc_select")
    ELSE IF conversions[c.id].status = "failed"
      THEN Raise(p, c, AlreadyFailedMsg(c.id, conversions[c.id].error_message), "proc_select")
    ELSE Continue(p, c, "proc_set_processing")

\* the error raised for a failed conversion does not quote the stored message
AfterProcSelect_DropsStoredMessage(p, c) ==
    IF ~Exists(c.id)
      THEN Raise(p, c, NotFoundMsg(c.id), "proc_select")
    ELSE IF conversions[c.id].status = "completed"
      THEN Return(p, c, conversions[c.id])
    ELSE IF conversions[c.id].status = "failed"
      THEN Raise(p, c, AlreadyFailedMsg(c.id, NULL), "proc_select")
    ELSE Continue(p, c, "proc_set_processing")

\* a conversion found in processing is refused
AfterProcSelect_RejectsProcessing(p, c) ==
    IF ~Exists(c.id)
      THEN Raise(p, c, NotFoundMsg(c.id), "proc_select")
    ELSE IF conversions[c.id].status = "completed"
      THEN Return(p, c, conversions[c.id])
    ELSE IF conversions[c.id].status = "failed"
      THEN Raise(p, c, AlreadyFailedMsg(c.id, conversions[c.id].error_message), "proc_select")
    ELSE IF conversions[c.id].status = "processing"
      THEN Raise(p, c, Msg("Conversion is already being processed", c.id, ""), "proc_select")
    ELSE Continue(p, c, "proc_set_processing")

\* lines 25-36 and 38: what follows the select of the conversion
AfterProcSelect(p, c) ==
    IF ~Exists(c.id)
      THEN Raise(p, c, NotFoundMsg(c.id), "proc_select")
    ELSE IF conversions[c.id].status = "completed"
      THEN Return(p, c, conversions[c.id])
    ELSE IF conversions[c.id].status = "failed"
      THEN Raise(p, c, AlreadyFailedMsg(c.id, conversions[c.id].error_message), "proc_select")
    ELSE Continue(p, c, "proc_set_processing")

\* lines 11-36: entry and the select of the conversion
ProcSelect(p) ==
    /\ Free(p)
    /\ \E id \in ConvIdInputs :
          /\ Exists(id) /\ conversions[id].status \in {"pending", "processing"} => now < MaxTime
          /\ Exists(id) => Len(Interpolate(conversions[id].error_message).wraps) < MaxWraps
          /\ AfterProcSelect(p, NewCall(p, "processConversion", id))
    /\ UNCHANGED <<store, now>>

\* entering processing does not clear the previous error message
SetProcessing_KeepsError(convs, id) ==
    [k \in DOMAIN convs |->
        IF k = id THEN [convs[k] EXCEPT !.status = "processing"] ELSE convs[k]]

\* UPDATE pdf_conversions SET ... WHERE id = id (no row matched: no effect)
SetProcessing(convs, id) ==
    [k \in DOMAIN convs |->
        IF k = id THEN [convs[k] EXCEPT !.status = "processing", !.error_message = NULL]
        ELSE convs[k]]

SetFailed(convs, id, m) ==
    [k \in DOMAIN convs |->
        IF k = id THEN [convs[k] EXCEPT !.status = "failed", !.error_message = Some(m)]
        ELSE convs[k]]

\* the completion write forgets completed_at
SetCompleted_NoTimestamp(convs, id, path, t) ==
    [k \in DOMAIN convs |->
        IF k = id THEN [convs[k] EXCEPT !.status = "completed",
                                        !.pdf_file_path = Some(path),
                                        !.error_message = NULL]
        ELSE convs[k]]

SetCompleted(convs, id, path, t) ==
    [k \in DOMAIN convs |->
        IF k = id THEN [convs[k] EXCEPT !.status = "completed",
                                        !.pdf_file_path = Some(path),
                                        !.completed_at = Some(t),
                                        !.error_message = NULL]
        ELSE convs[k]]

\* lines 39-45
ProcSetProcessing(p) ==
    /\ At(p, "proc_set_processing")
    /\ conversions' = SetProcessing(conversions, calls[p].id)
    /\ Continue(p, calls[p], "proc_select_images")
    /\ UNCHANGED <<images, nextImageId, now>>

\* `conversion_${id}_${Date.now()}.pdf`
PdfFilePath(id, t) == [id |-> id, stamp |-> t]

\* the check for an empty image list is missing
ProcSelectImages_NoEmptyCheck(p) ==
    /\ At(p, "proc_select_images")
    /\ Continue(p, [calls[p] EXCEPT !.row = PdfFilePath(calls[p].id, now)], "proc_sleep")
    /\ UNCHANGED <<store, now>>

\* lines 48-54 and 70-71
ProcSelectImages(p) ==
    /\ At(p, "proc_select_images")
    /\ IF ImagesOf(images, calls[p].id) = {}
       THEN Continue(p, calls[p], "proc_fail_no_images")
       ELSE Continue(p, [calls[p] EXCEPT !.row = PdfFilePath(calls[p].id, now)], "proc_sleep")
    /\ UNCHANGED <<store, now>>

\* lines 56-64
ProcFailNoImages(p) ==
    /\ At(p, "proc_fail_no_images")
    /\ conversions' = SetFailed(conversions, calls[p].id, NoImagesMsg)
    /\ Raise(p, calls[p], NoImagesMsg, "proc_throw_no_images")
    /\ UNCHANGED <<images, nextImageId, now>>

\* the promise of line 74 is never resolved
ProcSleep_NeverResolves(p) ==
    /\ At(p, "proc_sleep")
    /\ UNCHANGED vars

\* lines 74-85: the timer fires no earlier than SleepTicks after it was set;
\* the function resumes in the same task and builds the update, so `new Date()`
\* of line 81 reads the clock now, before the update is awaited
ProcSleep(p) ==
    /\ At(p, "proc_sleep")
    /\ now' = Max(now, calls[p].row.stamp + SleepTicks)
    /\ Continue(p, [calls[p] EXCEPT !.row = [path |-> calls[p].row, completed_at |-> now']],
                "proc_complete")
    /\ UNCHANGED store

\* lines 86-94: the update built at lines 77-85 executes
ProcComplete(p) ==
    /\ At(p, "proc_complete")
    /\ conversions' = SetCompleted(conversions, calls[p].id, calls[p].row.path,
                                   calls[p].row.completed_at)
    /\ Return(p, calls[p], conversions'[calls[p].id])
    /\ UNCHANGED <<images, nextImageId, now>>

\* lines 96-112: write the error back, then rethrow it
ProcCatch(p) ==
    /\ At(p, "proc_catch")
    /\ conversions' = SetFailed(conversions, calls[p].id, calls[p].err)
    /\ Throw(p, [calls[p] EXCEPT !.writeBack = "written"], calls[p].err)
    /\ UNCHANGED <<images, nextImageId, now>>

\* --------------------------------- processConversion, store statements reject
\* line 14: the select of the conversion rejects
ProcSelectRejects(p) ==
    /\ Free(p)
    /\ \E id \in ConvIdInputs :
          Raise(p, NewCall(p, "processConversion", id), StoreErrorMsg, "proc_select")
    /\ UNCHANGED <<store, now>>

\* the statements of the try block that are store statements
ProcStoreStatements ==
    {"proc_set_processing", "proc_select_images", "proc_fail_no_images", "proc_complete"}

\* lines 39, 48, 56, 77: the statement the call is at rejects, writing nothing
ProcStatementRejects(p) ==
    /\ out = NoOutput
    /\ calls[p].pc \in ProcStoreStatements
    /\ Raise(p, calls[p], StoreErrorMsg, calls[p].pc)
    /\ UNCHANGED <<store, now>>

\* lines 101-110: the write-back rejects; updateError is logged and dropped,
\* line 112 rethrows the error that was caught
ProcCatchRejects(p) ==
    /\ At(p, "proc_catch")
    /\ Throw(p, [calls[p] EXCEPT !.writeBack = "rejected"], calls[p].err)
    /\ UNCHANGED <<store, now>>

\* ------------------------------------------------------- updateConversion
\* update_conversion.ts lines 11-44: entry, select, guards, updateFields
UpdSelect(p) ==
    /\ Free(p)
    /\ \E id \in ConvIdInputs, ps \in PageSizeInputs \cup {UNDEFINED},
          o \in OrientationInputs \cup {UNDEFINED} :
          LET c == [NewCall(p, "updateConversion", id)
                       EXCEPT !.page_size = ps, !.orientation = o]
          IN IF ~Exists(id)
               THEN Throw(p, c, NotFoundMsg(id))
             ELSE IF conversions[id].status # "pending"
               THEN Throw(p, c, CannotUpdateMsg(conversions[id].status))
             ELSE IF ps = UNDEFINED /\ o = UNDEFINED
               THEN Return(p, c, conversions[id])
             ELSE Continue(p, c, "upd_update")
    /\ UNCHANGED <<store, now>>

\* an omitted field is reset to a default instead of being left alone
ApplyUpdateFields_DefaultsOmitted(row, ps, o) ==
    [row EXCEPT !.page_size = IF ps = UNDEFINED THEN "a4" ELSE ps,
                !.orientation = IF o = UNDEFINED THEN "portrait" ELSE o]

\* .set(updateFields): only the provided fields
ApplyUpdateFields(row, ps, o) ==
    [row EXCEPT !.page_size = IF ps = UNDEFINED THEN @ ELSE ps,
                !.orientation = IF o = UNDEFINED THEN @ ELSE o]

\* lines 47-53
UpdUpdate(p) ==
    /\ At(p, "upd_update")
    /\ LET id == calls[p].id IN
       /\ conversions' = [conversions EXCEPT ![id] =
              ApplyUpdateFields(@, calls[p].page_size, calls[p].orientation)]
       /\ Return(p, calls[p], conversions'[id])
    /\ UNCHANGED <<images, nextImageId, now>>

\* ------------------------------------------------------------ uploadImage
\* upload_image.ts lines 11-26, the input's order_index drawn from indices
\* and its metadata from metas, while fewer than limit images were stored
UplStart(p, indices, metas, limit) ==
    /\ Free(p)
    /\ nextImageId <= limit
    /\ \E id \in ConvIdInputs, x \in indices, meta \in metas :
          LET c == [NewCall(p, "uploadImage", id)
                       EXCEPT !.order_index = x, !.metadata = meta]
          IN IF ~Exists(id)
               THEN Throw(p, c, NotFoundMsg(id))
             ELSE IF conversions[id].status # "pending"
               THEN Throw(p, c, CannotUploadMsg(conversions[id].status))
             ELSE Continue(p, c, "upl_insert")
    /\ UNCHANGED <<store, now>>

\* upload_image.ts lines 11-26 for the input that ImageUploader sends
\* (part_000 lines 380-387), while fewer than MaxImg images were stored
UplFromUploader(p, id, x, meta) ==
    /\ Free(p)
    /\ nextImageId <= MaxImg
    /\ LET c == [NewCall(p, "uploadImage", id)
                    EXCEPT !.order_index = x, !.metadata = meta,
                           !.from = "uploader"]
       IN IF ~Exists(id)
            THEN Throw(p, c, NotFoundMsg(id))
          ELSE IF conversions[id].status # "pending"
            THEN Throw(p, c, CannotUploadMsg(conversions[id].status))
          ELSE Continue(p, c, "upl_insert")
    /\ UNCHANGED <<store, now>>

UplEnter(p, metas) == UplStart(p, IndexInputs, metas, MaxImg)

\* an uploadImage call that starts while no other call runs, with an index
\* of 0..MaxLongIndex, while fewer than MaxManyImg images were stored
LoneUpload(p) ==
    /\ Alone(p)
    /\ UplStart(p, 0..MaxLongIndex, ShortMetadataInputs, MaxManyImg)

UplSelect(p) == UplEnter(p, ShortMetadataInputs)

\* an uploadImage call with any of the metadata values
FullUpload(p) == UplEnter(p, MetadataInputs)

\* the insert leaves out the metadata of the input
NewImage_DropsMetadata(id, cid, x, meta) ==
    [id |-> id, conversion_id |-> cid, order_index |-> x, metadata |-> ""]

NewImage(id, cid, x, meta) ==
    [id |-> id, conversion_id |-> cid, order_index |-> x, metadata |-> meta]

\* INSERT of one image row
InsertImage(imgs, row) ==
    [k \in DOMAIN imgs \cup {row.id} |-> IF k = row.id THEN row ELSE imgs[k]]

\* lines 29-42
UplInsert(p) ==
    /\ At(p, "upl_insert")
    /\ LET row == NewImage(nextImageId, calls[p].id, calls[p].order_index,
                           calls[p].metadata) IN
       /\ images' = InsertImage(images, row)
       /\ Return(p, calls[p], row)
    /\ nextImageId' = nextImageId + 1
    /\ UNCHANGED <<conversions, now>>

\* ---------------------------------------------------------- reorderImages
ImageOrder == [image_id : ImgIdInputs, order_index : IndexInputs]

RECURSIVE SeqsUpTo(_, _)
SeqsUpTo(S, n) ==
    IF n = 0 THEN {<<>>}
    ELSE LET shorter == SeqsUpTo(S, n - 1)
         IN shorter \cup {Append(s, x) : s \in {t \in shorter : Len(t) = n - 1}, x \in S}

BatchInputs == SeqsUpTo(ImageOrder, MaxBatch)

\* the batches the larger specifications draw from
ShortBatchInputs == SeqsUpTo(ImageOrder, MaxShortBatch)

\* longer batches over more index values
LongImageOrder == [image_id : ImgIdInputs, order_index : 0..MaxLongIndex]

LongBatchInputs == SeqsUpTo(LongImageOrder, MaxLongBatch)

\* the status guard of lines 23-25 is missing
ReoEnter_NoStatusGuard(p, batches) ==
    /\ Free(p)
    /\ \E id \in ConvIdInputs, b \in batches :
          LET c == [NewCall(p, "reorderImages", id) EXCEPT !.image_orders = b]
          IN IF ~Exists(id)
               THEN Throw(p, c, NotFoundMsg(id))
             ELSE Continue(p, c, "reo_select_images")
    /\ UNCHANGED <<store, now>>

\* reorder_images.ts lines 11-25, the input's image_orders drawn from batches
ReoEnter(p, batches) ==
    /\ Free(p)
    /\ \E id \in ConvIdInputs, b \in batches :
          LET c == [NewCall(p, "reorderImages", id) EXCEPT !.image_orders = b]
          IN IF ~Exists(id)
               THEN Throw(p, c, NotFoundMsg(id))
             ELSE IF conversions[id].status # "pending"
               THEN Throw(p, c, CannotReorderMsg(conversions[id].status))
             ELSE Continue(p, c, "reo_select_images")
    /\ UNCHANGED <<store, now>>

ReoSelectConversion(p) == ReoEnter(p, BatchInputs)

\* a reorderImages call that carries at most MaxShortBatch entries
ShortReorder(p) == ReoEnter(p, ShortBatchInputs)

\* a reorderImages call that carries up to MaxLongBatch entries
LongReorder(p) == ReoEnter(p, LongBatchInputs)

\* lines 36-40: position of the first batch entry naming a foreign image, or 0
FirstForeign(b, ids) ==
    LET bad == {j \in 1..Len(b) : b[j].image_id \notin ids}
    IN IF bad = {} THEN 0 ELSE CHOOSE j \in bad : \A k \in bad : j <= k

\* the duplicate check is missing
HasDuplicateIndices_Never(b) == FALSE

\* lines 43-45: orderIndices.length !== uniqueOrderIndices.size
HasDuplicateIndices(b) == Len(b) # Cardinality({b[j].order_index : j \in 1..Len(b)})

\* the duplicate check runs after the first index write
ReoSelectImages_WritesBeforeDuplicateCheck(p) ==
    /\ At(p, "reo_select_images")
    /\ LET id == calls[p].id
           b == calls[p].image_orders
           j == FirstForeign(b, ImagesOf(images, id))
       IN IF j # 0
            THEN /\ Throw(p, calls[p], ImageNotInConversionMsg(b[j].image_id, id))
                 /\ UNCHANGED images
          ELSE IF HasDuplicateIndices(b)
            THEN /\ images' = [images EXCEPT ![b[1].image_id].order_index = b[1].order_index]
                 /\ Throw(p, calls[p], DuplicateIndicesMsg)
          ELSE IF Len(b) = 0
            THEN /\ Continue(p, calls[p], "reo_select_updated")
                 /\ UNCHANGED images
          ELSE /\ Continue(p, [calls[p] EXCEPT !.i = 1], "reo_update")
               /\ UNCHANGED images
    /\ UNCHANGED <<conversions, nextImageId, now>>

\* the duplicate check runs before the check of the image ids
ReoSelectImages_DuplicateCheckFirst(p) ==
    /\ At(p, "reo_select_images")
    /\ LET id == calls[p].id
           b == calls[p].image_orders
           j == FirstForeign(b, ImagesOf(images, id))
       IN IF HasDuplicateIndices(b) THEN Throw(p, calls[p], DuplicateIndicesMsg)
          ELSE IF j # 0 THEN Throw(p, calls[p], ImageNotInConversionMsg(b[j].image_id, id))
          ELSE IF Len(b) = 0 THEN Continue(p, calls[p], "reo_select_updated")
          ELSE Continue(p, [calls[p] EXCEPT !.i = 1], "reo_update")
    /\ UNCHANGED <<store, now>>

\* lines 28-47
ReoSelectImages(p) ==
    /\ At(p, "reo_select_images")
    /\ LET id == calls[p].id
           b == calls[p].image_orders
           j == FirstForeign(b, ImagesOf(images, id))
       IN IF j # 0 THEN Throw(p, calls[p], ImageNotInConversionMsg(b[j].image_id, id))
          ELSE IF HasDuplicateIndices(b) THEN Throw(p, calls[p], DuplicateIndicesMsg)
          ELSE IF Len(b) = 0 THEN Continue(p, calls[p], "reo_select_updated")
          ELSE Continue(p, [calls[p] EXCEPT !.i = 1], "reo_update")
    /\ UNCHANGED <<store, now>>

\* the update's WHERE clause lacks the image id
SetOrderIndex_IgnoresImageId(imgs, imageId, cid, x) ==
    [k \in DOMAIN imgs |->
        IF imgs[k].conversion_id = cid
        THEN [imgs[k] EXCEPT !.order_index = x] ELSE imgs[k]]

\* lines 51-57: UPDATE ... WHERE id = image_id AND conversion_id = conversion_id
SetOrderIndex(imgs, imageId, cid, x) ==
    [k \in DOMAIN imgs |->
        IF k = imageId /\ imgs[k].conversion_id = cid
        THEN [imgs[k] EXCEPT !.order_index = x] ELSE imgs[k]]

\* the loop writes the entry's position in the batch instead of its order_index
ReoUpdate_WritesPosition(p) ==
    /\ At(p, "reo_update")
    /\ LET e == calls[p].image_orders[calls[p].i] IN
       images' = SetOrderIndex(images, e.image_id, calls[p].id, calls[p].i - 1)
    /\ IF calls[p].i = Len(calls[p].image_orders)
       THEN Continue(p, calls[p], "reo_select_updated")
       ELSE Continue(p, [calls[p] EXCEPT !.i = @ + 1], "reo_update")
    /\ UNCHANGED <<conversions, nextImageId, now>>

\* one iteration of the loop of lines 50-58
ReoUpdate(p) ==
    /\ At(p, "reo_update")
    /\ LET e == calls[p].image_orders[calls[p].i] IN
       images' = SetOrderIndex(images, e.image_id, calls[p].id, e.order_index)
    /\ IF calls[p].i = Len(calls[p].image_orders)
       THEN Continue(p, calls[p], "reo_select_updated")
       ELSE Continue(p, [calls[p] EXCEPT !.i = @ + 1], "reo_update")
    /\ UNCHANGED <<conversions, nextImageId, now>>

\* ORDER BY order_index ASC: every arrangement of the rows in which
\* order_index never decreases (the order of ties is the store's choice)
OrderedByIndex(imgs, ids) ==
    {s \in [1..Cardinality(ids) -> ids] :
        /\ \A a, b \in 1..Cardinality(ids) : a # b => s[a] # s[b]
        /\ \A a, b \in 1..Cardinality(ids) :
              a < b => imgs[s[a]].order_index <= imgs[s[b]].order_index}

Rows(imgs, s) == [j \in 1..Len(s) |-> imgs[s[j]]]

\* lines 61-67
ReoSelectUpdated(p) ==
    /\ At(p, "reo_select_updated")
    /\ \E s \in OrderedByIndex(images, ImagesOf(images, calls[p].id)) :
          Return(p, calls[p], Rows(images, s))
    /\ UNCHANGED <<store, now>>

\* ------------------------------------------------------------ deleteImage
\* the check of the owning conversion's status is missing
DelSelect_NoStatusGuard(p) ==
    /\ Free(p)
    /\ \E imageId \in ImgIdInputs :
          LET c == NewCall(p, "deleteImage", imageId)
          IN IF imageId \notin DOMAIN images
               THEN Return(p, c, FALSE)
             ELSE IF ~Exists(images[imageId].conversion_id)
               THEN Return(p, c, FALSE)
             ELSE Continue(p, [c EXCEPT !.row = images[imageId]], "del_unlink")
    /\ UNCHANGED <<store, now>>

\* delete_image.ts lines 12-36: entry, the joined select and the two
\* `return false` exits
DelSelect(p) ==
    /\ Free(p)
    /\ \E imageId \in ImgIdInputs :
          LET c == NewCall(p, "deleteImage", imageId)
          IN IF imageId \notin DOMAIN images
               THEN Return(p, c, FALSE)
             ELSE IF ~Exists(images[imageId].conversion_id)
               THEN Return(p, c, FALSE)
             ELSE IF conversions[images[imageId].conversion_id].status # "pending"
               THEN Return(p, c, FALSE)
             ELSE Continue(p, [c EXCEPT !.row = images[imageId]], "del_unlink")
    /\ UNCHANGED <<store, now>>

\* lines 38-44: the awaited unlink of the image file; it resolves or it
\* rejects, the rejection is caught and logged, and no table is written
DelUnlink(p) ==
    /\ At(p, "del_unlink")
    /\ Continue(p, calls[p], "del_delete")
    /\ UNCHANGED <<store, now>>

\* a deleteImage call of any of the images that may have been stored, which
\* starts while no call of another handler runs
DelAmongDeletes(p) ==
    /\ \A q \in Slots : calls[q].op \in {"idle", "deleteImage"}
    /\ DelSelect(p)

\* DELETE of one image row
DeleteImageRow(imgs, id) == [k \in DOMAIN imgs \ {id} |-> imgs[k]]

\* lines 47-49
DelDelete(p) ==
    /\ At(p, "del_delete")
    /\ images' = DeleteImageRow(images, calls[p].id)
    /\ Continue(p, calls[p], "del_update")
    /\ UNCHANGED <<conversions, nextImageId, now>>

\* the update's WHERE clause lacks the order_index condition
ShiftDown_AllRows(imgs, cid, x) ==
    [k \in DOMAIN imgs |->
        IF imgs[k].conversion_id = cid
        THEN [imgs[k] EXCEPT !.order_index = @ - 1] ELSE imgs[k]]

\* the update's WHERE clause lacks the conversion_id condition
ShiftDown_AnyConversion(imgs, cid, x) ==
    [k \in DOMAIN imgs |->
        IF imgs[k].order_index > x
        THEN [imgs[k] EXCEPT !.order_index = @ - 1] ELSE imgs[k]]

\* the update's WHERE clause takes the next index only instead of all above
ShiftDown_NextOnly(imgs, cid, x) ==
    [k \in DOMAIN imgs |->
        IF imgs[k].conversion_id = cid /\ imgs[k].order_index = x + 1
        THEN [imgs[k] EXCEPT !.order_index = @ - 1] ELSE imgs[k]]

\* the update's WHERE clause compares with >= instead of >
ShiftDown_Inclusive(imgs, cid, x) ==
    [k \in DOMAIN imgs |->
        IF imgs[k].conversion_id = cid /\ imgs[k].order_index >= x
        THEN [imgs[k] EXCEPT !.order_index = @ - 1] ELSE imgs[k]]

\* order_index - 1 for the conversion's rows above the deleted one
ShiftDown(imgs, cid, x) ==
    [k \in DOMAIN imgs |->
        IF imgs[k].conversion_id = cid /\ imgs[k].order_index > x
        THEN [imgs[k] EXCEPT !.order_index = @ - 1] ELSE imgs[k]]

\* lines 53-65
DelUpdate(p) ==
    /\ At(p, "del_update")
    /\ images' = ShiftDown(images, calls[p].row.conversion_id, calls[p].row.order_index)
    /\ Return(p, calls[p], TRUE)
    /\ UNCHANGED <<conversions, nextImageId, now>>

\* ---------------------------------------------------------- getConversion
ConversionWithImages(row, rows) == [conversion |-> row, images |-> rows]

\* the join lacks its condition: the images of every conversion are returned
GetConversion_AllImages(p) ==
    /\ Free(p)
    /\ \E id \in ConvIdInputs :
          LET c == NewCall(p, "getConversion", id)
          IN IF ~Exists(id)
             THEN Return(p, c, NULL)
             ELSE \E s \in OrderedByIndex(images, DOMAIN images) :
                     Return(p, c, Some(ConversionWithImages(conversions[id], Rows(images, s))))
    /\ UNCHANGED <<store, now>>

\* get_conversion lines 11-44: one joined select ordered by order_index
GetConversion(p) ==
    /\ Free(p)
    /\ \E id \in ConvIdInputs :
          LET c == NewCall(p, "getConversion", id)
          IN IF ~Exists(id)
             THEN Return(p, c, NULL)
             ELSE \E s \in OrderedByIndex(images, ImagesOf(images, id)) :
                     Return(p, c, Some(ConversionWithImages(conversions[id], Rows(images, s))))
    /\ UNCHANGED <<store, now>>

\* ------------------------------------------------------------- getPdfFile
\* the bytes readFile yields for a path
FileContent(path) == [content_of |-> path]

\* readFile() rejects: the path is a directory, or the file was removed after
\* access() resolved
ReadFileErrorMsg == Msg("readFile rejected", 0, "")

\* get_pdf_file.ts lines 12-29: entry, the select and the `return null` exits
GetPdfFile(p) ==
    /\ Free(p)
    /\ \E id \in ConvIdInputs :
          LET c == NewCall(p, "getPdfFile", id)
          IN IF \/ ~Exists(id)
                \/ conversions[id].status # "completed"
                \/ IsNull(conversions[id].pdf_file_path)
             THEN Return(p, c, NULL)
             ELSE Continue(p, [c EXCEPT !.row = conversions[id]], "pdf_access")
    /\ UNCHANGED <<store, now>>

\* lines 32-37: access() on the selected path. The files are not this
\* model's state (deleteImage unlinks them, and so may anything else on the
\* machine): access() resolves or rejects, and a rejection returns null
GetPdfAccess(p) ==
    /\ At(p, "pdf_access")
    /\ \E fileExists \in BOOLEAN :
          IF fileExists
          THEN Continue(p, [calls[p] EXCEPT !.fileExists = TRUE], "pdf_read")
          ELSE Return(p, calls[p], NULL)
    /\ UNCHANGED <<store, now>>

\* lines 40-44: readFile() on the selected path resolves with the bytes, or
\* rejects (the path is a directory, the file is gone since access()) and
\* the catch block of line 42 rethrows
GetPdfReadFile(p) ==
    /\ At(p, "pdf_read")
    /\ \E readable \in BOOLEAN :
          IF readable
          THEN Return(p, calls[p], Some(FileContent(Get(calls[p].row.pdf_file_path))))
          ELSE Throw(p, [calls[p] EXCEPT !.at = "pdf_read"], ReadFileErrorMsg)
    /\ UNCHANGED <<store, now>>

\* ------------------------------------------------------------ the caller
\* the caller takes the outcome of the call that just ended
Deliver ==
    /\ out # NoOutput
    /\ out' = NoOutput
    /\ UNCHANGED <<store, now, calls, hist, response, client>>

\* ----------------------------------------------------------- ImagePreview
\* the `images` props the parent may pass: up to MaxShown rows in the order
\* of their ids, with any order_index of 0..MaxLongIndex
ShownInputs ==
    {s \in SeqsUpTo(1..MaxShown, MaxShown) :
        \A a, b \in 1..Len(s) : a < b => s[a] < s[b]}

PropsInputs ==
    UNION {{[j \in 1..Len(s) |-> NewImage(s[j], 1, x[j], "photo.jpeg")] :
               x \in [1..Len(s) -> 0..MaxLongIndex]} : s \in ShownInputs}

\* line 32: [...images].sort((a, b) => a.order_index - b.order_index), a
\* stable sort
SortByIndex(imgs) ==
    LET n == Len(imgs)
        perm == CHOOSE s \in [1..n -> 1..n] :
                   /\ \A a, b \in 1..n : a # b => s[a] # s[b]
                   /\ \A a, b \in 1..n :
                         a < b => \/ imgs[s[a]].order_index < imgs[s[b]].order_index
                                  \/ /\ imgs[s[a]].order_index = imgs[s[b]].order_index
                                     /\ s[a] < s[b]
    IN [j \in 1..n |-> imgs[perm[j]]]

\* lines 56-59 and 98-101: reorderedImages.map((img, index) => ...)
ImageOrders(reordered) ==
    [j \in 1..Len(reordered) |->
        [image_id |-> reordered[j].id, order_index |-> j - 1]]

\* lines 52-54: the elements at the (0-based) indices a and b change places
Swap(sorted, a, b) ==
    [j \in 1..Len(sorted) |->
        IF j = a + 1 THEN sorted[b + 1]
        ELSE IF j = b + 1 THEN sorted[a + 1] ELSE sorted[j]]

\* Array.prototype.splice(k, 1): the array without its (0-based) element k
SpliceOut(arr, k) ==
    IF k >= Len(arr) THEN arr
    ELSE [j \in 1..(Len(arr) - 1) |-> IF j <= k THEN arr[j] ELSE arr[j + 1]]

\* Array.prototype.splice(k, 0, x): x inserted at the (0-based) index k
SpliceIn(arr, k, x) ==
    LET at == IF k > Len(arr) THEN Len(arr) ELSE k
    IN [j \in 1..(Len(arr) + 1) |->
          IF j <= at THEN arr[j] ELSE IF j = at + 1 THEN x ELSE arr[j - 1]]

\* the handler ran to its end without calling onImageReorder
Unsent(e) == [e EXCEPT !.batch = NULL, !.threw = FALSE]

\* the parent renders the component with other images
PreviewImages ==
    /\ \E imgs \in PropsInputs :
          preview' = [preview EXCEPT !.images = imgs, !.last = NoEvent]
    /\ UNCHANGED <<server, uploader>>

\* the parent renders the component with the other value of `disabled`
PreviewDisabled ==
    /\ preview' = [preview EXCEPT !.disabled = ~@, !.last = NoEvent]
    /\ UNCHANGED <<server, uploader>>

\* lines 61-63 and 103-105: setIsReordering(true), onImageReorder(imageOrders)
SendReorder(e, batch) ==
    /\ Len(preview.requests) < MaxInFlight
    /\ preview' = [preview EXCEPT !.isReordering = TRUE,
                                  !.requests = Append(@, e.by),
                                  !.last = [e EXCEPT !.batch = Some(batch),
                                                     !.threw = FALSE]]

\* the swap exchanges the image with the one two places away
MoveImage_SwapsTwoAway(currentIndex, direction) ==
    LET sorted == SortByIndex(preview.images)
        newIndex == IF direction = "up" THEN currentIndex - 1 ELSE currentIndex + 1
        far == IF direction = "up" THEN Max(currentIndex - 2, 0)
               ELSE IF currentIndex + 2 < Len(sorted) THEN currentIndex + 2
               ELSE currentIndex + 1
        e == [by |-> "moveImage", shown |-> sorted, disabled |-> preview.disabled,
              from |-> Some(currentIndex), to |-> newIndex,
              direction |-> direction, batch |-> NULL, threw |-> FALSE]
    IN /\ IF preview.disabled \/ newIndex < 0 \/ newIndex >= Len(sorted)
          THEN preview' = [preview EXCEPT !.last = Unsent(e)]
          ELSE SendReorder(e, ImageOrders(Swap(sorted, currentIndex, far)))
       /\ UNCHANGED <<server, uploader>>

\* lines 46-63: moveImage(currentIndex, direction) up to its await
MoveImage(currentIndex, direction) ==
    LET sorted == SortByIndex(preview.images)
        newIndex == IF direction = "up" THEN currentIndex - 1 ELSE currentIndex + 1
        e == [by |-> "moveImage", shown |-> sorted, disabled |-> preview.disabled,
              from |-> Some(currentIndex), to |-> newIndex,
              direction |-> direction, batch |-> NULL, threw |-> FALSE]
    IN /\ IF preview.disabled \/ newIndex < 0 \/ newIndex >= Len(sorted)
          THEN preview' = [preview EXCEPT !.last = Unsent(e)]
          ELSE SendReorder(e, ImageOrders(Swap(sorted, currentIndex, newIndex)))
       /\ UNCHANGED <<server, uploader>>

\* moveImage called for any row that is shown, in either direction
MoveAny ==
    \E k \in 0..(Len(preview.images) - 1), direction \in {"up", "down"} :
       MoveImage(k, direction)

\* lines 184-203: a click on an arrow button that is rendered and enabled
ArrowClick ==
    /\ ~preview.disabled
    /\ ~preview.isReordering
    /\ \E k \in 0..(Len(preview.images) - 1), direction \in {"up", "down"} :
          /\ direction = "up" => k # 0
          /\ direction = "down" => k # Len(preview.images) - 1
          /\ MoveImage(k, direction)

\* lines 70-75: handleDragStart on a row that is shown
HandleDragStart ==
    /\ \E index \in 0..(Len(preview.images) - 1) :
          preview' = [preview EXCEPT
                         !.draggedIndex = IF preview.disabled THEN @ ELSE Some(index),
                         !.last = NoEvent]
    /\ UNCHANGED <<server, uploader>>

\* lines 86-105: handleDrop on a row that is shown, up to its await; with a
\* draggedIndex past the end of the list the first splice removes nothing,
\* draggedImage is undefined and `img.id` throws a TypeError inside map
HandleDrop ==
    /\ \E dropIndex \in 0..(Len(preview.images) - 1) :
          LET sorted == SortByIndex(preview.images)
              e == [by |-> "handleDrop", shown |-> sorted,
                    disabled |-> preview.disabled, from |-> preview.draggedIndex,
                    to |-> dropIndex, direction |-> "", batch |-> NULL,
                    threw |-> FALSE]
          IN IF \/ preview.disabled
                \/ IsNull(preview.draggedIndex)
                \/ preview.draggedIndex = Some(dropIndex)
             THEN preview' = [preview EXCEPT !.draggedIndex = NULL,
                                            !.last = Unsent(e)]
             ELSE IF Get(preview.draggedIndex) >= Len(sorted)
             THEN preview' = [preview EXCEPT !.last = [e EXCEPT !.threw = TRUE]]
             ELSE SendReorder(e, ImageOrders(
                     SpliceIn(SpliceOut(sorted, Get(preview.draggedIndex)),
                              dropIndex, sorted[Get(preview.draggedIndex) + 1])))
    /\ UNCHANGED <<server, uploader>>

\* lines 64-66 and 106-109: a request of onImageReorder settles, resolved or
\* rejected, and the finally block of the handler that awaits it runs
ReorderSettles ==
    /\ \E k \in 1..Len(preview.requests) :
          preview' = [preview EXCEPT
                         !.isReordering = FALSE,
                         !.draggedIndex = IF preview.requests[k] = "handleDrop"
                                          THEN NULL ELSE @,
                         !.requests = SpliceOut(@, k - 1),
                         !.last = NoEvent]
    /\ UNCHANGED <<server, uploader>>

\* ---------------------------------------------------------- ImageUploader
\* a MIME type `top/sub`
MimeType(top, sub) == <<top, sub>>

\* a File: name, type and size in bytes
File(name, type, size) == [name |-> name, type |-> type, size |-> size]

\* the files the user may pick: two that pass validateFile and one for each
\* of its three refusals
FileInputs ==
    {File("photo.jpeg", MimeType("image", "jpeg"), 1024),
     File("scan.png", MimeType("image", "png"), 2048),
     File("notes.txt", MimeType("text", "plain"), 1024),
     File("pic.bmp", MimeType("image", "bmp"), 1024),
     File("huge.png", MimeType("image", "png"), MAX_FILE_SIZE + 1)}

\* lines 269-278: mimeToFormat[file.type] || null
GetImageFormat(file) ==
    IF file.type = MimeType("image", "jpeg") THEN Some("jpeg")
    ELSE IF file.type = MimeType("image", "jpg") THEN Some("jpeg")
    ELSE IF file.type = MimeType("image", "png") THEN Some("png")
    ELSE IF file.type = MimeType("image", "webp") THEN Some("webp")
    ELSE IF file.type = MimeType("image", "gif") THEN Some("gif")
    ELSE NULL

\* lines 281-296: the text of the refusal, or null
ValidateFile(file) ==
    IF file.type[1] # "image"
      THEN Some("File must be an image")
    ELSE IF IsNull(GetImageFormat(file)) \/ Get(GetImageFormat(file)) \notin ACCEPTED_FORMATS
      THEN Some("Unsupported format. Please use: JPEG, PNG, WEBP, GIF")
    ELSE IF file.size > MAX_FILE_SIZE
      THEN Some("File size must be less than 10MB")
    ELSE NULL

Refused(file) == ~IsNull(ValidateFile(file))

Accepted(file) == IsNull(ValidateFile(file))

\* the FileList of one change or drop event: up to MaxPick files, at most
\* MaxRefused of them files that validateFile refuses
FileListInputs ==
    {files \in SeqsUpTo(FileInputs, MaxPick) : Len(SelectSeq(files, Refused)) <= MaxRefused}

\* the FileLists without a refused file
AcceptedListInputs == {files \in FileListInputs : Len(SelectSeq(files, Refused)) = 0}

\* values of Math.random().toString(36).substring(7); nothing keeps two
\* calls from yielding the same one
RandomIdInputs == {"k3x9", "q7f2"}

\* line 308: `${file.name}: ${error}`
ErrorLine(name, error) == [name |-> name, error |-> error]

\* line 404
UploadFailedText == <<ErrorLine("", "Failed to upload images. Please try again.")>>

\* lines 299-327: handleFileSelect with a FileList drawn from lists, from
\* the input's change event or from a drop (lines 418-433); ids are the
\* random strings of line 315 for the files that pass, in order. `key`
\* numbers the entries ever made; the component does not have it
SelectFiles(lists) ==
    /\ ~uploader.disabled
    /\ \E files \in lists :
          LET passed == SelectSeq(files, Accepted)
              failed == SelectSeq(files, Refused)
              errors == [j \in 1..Len(failed) |->
                            ErrorLine(failed[j].name, Get(ValidateFile(failed[j])))]
          IN /\ uploader.nextPendingId + Len(passed) - 1 <= MaxSelected
             /\ \E ids \in [1..Len(passed) -> RandomIdInputs] :
                   LET newUploads ==
                          [j \in 1..Len(passed) |->
                              [file |-> passed[j], id |-> ids[j],
                               key |-> uploader.nextPendingId + j - 1]]
                   IN uploader' = [uploader EXCEPT
                          !.pendingUploads = @ \o newUploads,
                          !.nextPendingId = @ + Len(passed),
                          !.uploadError = IF Len(errors) > 0 THEN Some(errors)
                                          ELSE NULL]
    /\ UNCHANGED <<server, preview>>

HandleFileSelect == SelectFiles(FileListInputs)

\* handleFileSelect with files that all pass validateFile
SelectAccepted == SelectFiles(AcceptedListInputs)

\* lines 330-340 and 534-540: removePendingUpload from an entry's button
\* keeps the entries with another id
RemovePendingUpload ==
    /\ ~uploader.isUploading
    /\ \E k \in 1..Len(uploader.pendingUploads) :
          LET id == uploader.pendingUploads[k].id
              Keeps(upload) == upload.id # id
          IN uploader' = [uploader EXCEPT !.pendingUploads = SelectSeq(@, Keeps)]
    /\ UNCHANGED <<server, preview>>

\* lines 501-513: the Clear All button
ClearAll ==
    /\ uploader.pendingUploads # <<>>
    /\ ~uploader.isUploading
    /\ uploader' = [uploader EXCEPT !.pendingUploads = <<>>]
    /\ UNCHANGED <<server, preview>>

\* the parent renders the component with the other value of `disabled`
UploaderDisabled ==
    /\ uploader' = [uploader EXCEPT !.disabled = ~@]
    /\ UNCHANGED <<server, preview>>

\* the parent renders the component with the other value of `demoMode`
UploaderDemoMode ==
    /\ uploader' = [uploader EXCEPT !.demoMode = ~@]
    /\ UNCHANGED <<server, preview>>

\* lines 343-361 and 514-520: the Upload All button calls uploadFiles, which
\* runs to the first await of its loop: the timer of line 361, or mutate of
\* line 380, whose request is then on its way
UploadAllClick ==
    /\ uploader.pendingUploads # <<>>
    /\ ~uploader.isUploading
    /\ ~uploader.disabled
    /\ uploader' = [uploader EXCEPT
                        !.isUploading = TRUE,
                        !.uploadError = NULL,
                        !.run = [pc |-> "awaiting",
                                 batch |-> uploader.pendingUploads,
                                 conversionId |-> uploader.conversionId,
                                 demoMode |-> uploader.demoMode,
                                 k |-> 1, completedFiles |-> 0,
                                 uploadedImages |-> <<>>, storedNow |-> {}]]
    /\ UNCHANGED <<server, preview>>

\* lines 389-409: the image row is pushed and completedFiles++; the loop
\* goes to its next await or, after the last file, lines 396-402 and the
\* finally block run
AfterUpload(row, fresh) ==
    LET r == uploader.run
        pushed == [r EXCEPT !.uploadedImages = Append(@, row),
                            !.completedFiles = @ + 1,
                            !.storedNow = @ \cup fresh]
        kept == [uploader EXCEPT
                    !.stored = @ \o [j \in 1..Cardinality(fresh) |-> r.batch[r.k].key]]
    IN IF r.k < Len(r.batch)
       THEN uploader' = [kept EXCEPT !.run = [pushed EXCEPT !.k = @ + 1]]
       ELSE uploader' = [kept EXCEPT
                            !.pendingUploads = <<>>,
                            !.reported = @ \cup {pushed.uploadedImages[j].id :
                                                    j \in 1..Len(pushed.uploadedImages)},
                            !.isUploading = FALSE,
                            !.run = [pushed EXCEPT !.pc = "ended"]]

\* lines 359-375: demo mode, the timer fires and a mock image with a random
\* id is pushed; nothing is stored
UploadMocked ==
    /\ uploader.run.pc = "awaiting"
    /\ uploader.run.demoMode
    /\ \E id \in ImgIdInputs :
          LET r == uploader.run
          IN AfterUpload(NewImage(id, r.conversionId, r.completedFiles,
                                  r.batch[r.k].file.name), {})
    /\ UNCHANGED <<server, preview>>

\* uploadFiles awaits mutate of line 380 and its request has not reached the
\* server yet
RequestOnItsWay ==
    /\ uploader.run.pc = "awaiting"
    /\ ~uploader.run.demoMode
    /\ IsNull(response)
    /\ \A q \in Slots : IF calls[q].op = "idle" THEN TRUE ELSE calls[q].from = "api"

\* lines 378-387: the request of trpc.uploadImage.mutate reaches the server
\* and uploadImage runs to its insert, or throws
UploadRequest(p) ==
    /\ RequestOnItsWay
    /\ LET r == uploader.run
       IN UplFromUploader(p, r.conversionId, r.completedFiles, r.batch[r.k].file.name)

\* lines 380 and 403-409: the request does not reach the server, mutate
\* rejects; the catch block and the finally block run
UploadRequestFails ==
    /\ RequestOnItsWay
    /\ uploader' = [uploader EXCEPT !.uploadError = Some(UploadFailedText),
                                    !.isUploading = FALSE,
                                    !.run.pc = "ended"]
    /\ UNCHANGED <<server, preview>>

\* the response to the uploadImage call that ImageUploader sent reaches
\* the browser
UploadSettled(kind) ==
    /\ ~IsNull(response)
    /\ Get(response).kind = kind

\* lines 380 and 389-402: uploadImage returned the stored row, mutate
\* resolves with it and uploadFiles goes on
UploadResolves ==
    /\ UploadSettled("return")
    /\ AfterUpload(Get(response).val,
                   {[image |-> Get(response).val.id,
                     pending |-> uploader.run.batch[uploader.run.k].key]})
    /\ response' = NULL
    /\ UNCHANGED <<store, now, calls, out, hist, preview>>

\* lines 380 and 403-409: uploadImage threw, mutate rejects; the catch block
\* and the finally block run
UploadRejects ==
    /\ UploadSettled("throw")
    /\ uploader' = [uploader EXCEPT !.uploadError = Some(UploadFailedText),
                                    !.isUploading = FALSE,
                                    !.run.pc = "ended"]
    /\ response' = NULL
    /\ UNCHANGED <<store, now, calls, out, hist, preview>>

\* ---------------------------------------------------------- specifications
\* the statements of every handler but createConversion and the entry of
\* reorderImages
OtherStatement(p) ==
    \/ ProcSelect(p)
    \/ ProcSetProcessing(p)
    \/ ProcSelectImages(p)
    \/ ProcFailNoImages(p)
    \/ ProcSleep(p)
    \/ ProcComplete(p)
    \/ ProcCatch(p)
    \/ UpdSelect(p)
    \/ UpdUpdate(p)
    \/ UplSelect(p)
    \/ UplInsert(p)
    \/ ReoSelectImages(p)
    \/ ReoUpdate(p)
    \/ ReoSelectUpdated(p)
    \/ DelSelect(p)
    \/ DelUnlink(p)
    \/ DelDelete(p)
    \/ DelUpdate(p)
    \/ GetConversion(p)
    \/ GetPdfFile(p)
    \/ GetPdfAccess(p)
    \/ GetPdfReadFile(p)

Statement(p) ==
    \/ ReoSelectConversion(p)
    \/ OtherStatement(p)

\* API calls execute one at a time: only the first request slot is used
Next ==
    \/ CreateConversion(1)
    \/ Statement(1)
    \/ Deliver

Spec == Init /\ [][Next]_vars

\* API calls on MaxRaceConv conversions interleave freely at the granularity
\* of store statements; reorder batches have at most MaxShortBatch entries
NextConc ==
    \/ \E p \in Slots : Len(conversions) < MaxRaceConv /\ CreateConversion(p)
    \/ \E p \in Slots : ShortReorder(p)
    \/ \E p \in Slots : OtherStatement(p)
    \/ Deliver

SpecConc == Init /\ [][NextConc]_vars

Rejects(p) ==
    \/ ProcSelectRejects(p)
    \/ ProcStatementRejects(p)
    \/ ProcCatchRejects(p)

\* API calls execute one at a time, and a store statement of
\* processConversion may reject instead of executing; reorder batches have
\* at most MaxShortBatch entries
NextFault ==
    \/ CreateConversion(1)
    \/ ShortReorder(1)
    \/ OtherStatement(1)
    \/ Deliver
    \/ Rejects(1)

SpecFault == Init /\ [][NextFault]_vars

\* uploads with every metadata value, deletions and reads, one call at a time
NextUpload ==
    \/ CreateConversion(1)
    \/ FullUpload(1)
    \/ UplInsert(1)
    \/ DelSelect(1)
    \/ DelUnlink(1)
    \/ DelDelete(1)
    \/ DelUpdate(1)
    \/ GetConversion(1)
    \/ Deliver

SpecUpload == Init /\ [][NextUpload]_vars

\* the statements by which a call of processConversion or uploadImage that
\* has started goes on
Progress(p) ==
    \/ ProcSetProcessing(p)
    \/ ProcSelectImages(p)
    \/ ProcFailNoImages(p)
    \/ ProcSleep(p)
    \/ ProcComplete(p)
    \/ ProcCatch(p)
    \/ UplInsert(p)

\* an uploadImage call with an index of 0..MaxCompactIndex, while fewer than
\* MaxCompactImg images were stored
CompactUpload(p) == UplStart(p, 0..MaxCompactIndex, ShortMetadataInputs, MaxCompactImg)

\* uploads of up to MaxCompactImg images to MaxRaceConv conversions and
\* deleteImage calls, one call at a time
NextCompact ==
    \/ Len(conversions) < MaxRaceConv /\ CreateConversion(1)
    \/ CompactUpload(1)
    \/ UplInsert(1)
    \/ DelSelect(1)
    \/ DelUnlink(1)
    \/ DelDelete(1)
    \/ DelUpdate(1)
    \/ Deliver

SpecCompact == Init /\ [][NextCompact]_vars

\* uploads and processConversion calls on MaxRaceConv conversions
\* interleave at the granularity of store statements
NextLive ==
    \/ \E p \in Slots : Len(conversions) < MaxRaceConv /\ CreateConversion(p)
    \/ \E p \in Slots : UplSelect(p)
    \/ \E p \in Slots : ProcSelect(p)
    \/ \E p \in Slots : Progress(p)
    \/ Deliver

\* the event loop runs every continuation that is ready (a resolved store
\* statement, the fired timer) and every settled call reaches its caller
SpecLive ==
    /\ Init
    /\ [][NextLive]_vars
    /\ WF_vars(Deliver)
    /\ \A p \in Slots : SF_vars(Progress(p))

\* uploads and reorderImages calls with long batches on MaxRaceConv
\* conversions, one call at a time
NextReorder ==
    \/ Len(conversions) < MaxRaceConv /\ CreateConversion(1)
    \/ UplSelect(1)
    \/ UplInsert(1)
    \/ LongReorder(1)
    \/ ReoSelectImages(1)
    \/ ReoUpdate(1)
    \/ ReoSelectUpdated(1)
    \/ Deliver

SpecReorder == Init /\ [][NextReorder]_vars

\* uploads one at a time and deleteImage calls that interleave at the
\* granularity of store statements, on MaxRaceConv conversions
NextDelete ==
    \/ Len(conversions) < MaxRaceConv /\ CreateConversion(1)
    \/ LoneUpload(1)
    \/ UplInsert(1)
    \/ \E p \in Slots : DelAmongDeletes(p)
    \/ \E p \in Slots : DelUnlink(p)
    \/ \E p \in Slots : DelDelete(p)
    \/ \E p \in Slots : DelUpdate(p)
    \/ Deliver

SpecDelete == InitHistory /\ [][NextDelete]_vars

\* an uploadImage or reorderImages call that starts while no other call runs
LoneReorder(p) ==
    /\ Alone(p)
    /\ ReoSelectConversion(p)

LoneShortUpload(p) ==
    /\ Alone(p)
    /\ UplSelect(p)

\* a getConversion call that starts while no call of a handler other than
\* reorderImages runs
GetAmongReorders(p) ==
    /\ \A q \in Slots : calls[q].op \in {"idle", "reorderImages"}
    /\ GetConversion(p)

\* uploads, reorderImages calls with batches of up to MaxBatch entries, and
\* getConversion calls that interleave with the statements of a
\* reorderImages call, on MaxRaceConv conversions
NextRead ==
    \/ Len(conversions) < MaxRaceConv /\ CreateConversion(1)
    \/ LoneShortUpload(1)
    \/ UplInsert(1)
    \/ LoneReorder(1)
    \/ ReoSelectImages(1)
    \/ ReoUpdate(1)
    \/ ReoSelectUpdated(1)
    \/ \E p \in Slots : GetAmongReorders(p)
    \/ Deliver

SpecRead == InitHistory /\ [][NextRead]_vars

\* ImagePreview as the user drives it: renders by the parent, clicks on
\* the arrow buttons, drags and drops, and requests that settle
NextPreview ==
    \/ PreviewImages
    \/ PreviewDisabled
    \/ ArrowClick
    \/ HandleDragStart
    \/ HandleDrop
    \/ ReorderSettles

SpecPreview == Init /\ [][NextPreview]_vars

\* the handlers of ImagePreview called with every argument
NextHandlers ==
    \/ PreviewImages
    \/ PreviewDisabled
    \/ MoveAny
    \/ HandleDragStart
    \/ HandleDrop
    \/ ReorderSettles

SpecHandlers == Init /\ [][NextHandlers]_vars

\* a processConversion call that starts while no call of a handler other
\* than uploadImage runs
ProcAmongUploads(p) ==
    /\ \A q \in Slots : calls[q].op \in {"idle", "uploadImage"}
    /\ ProcSelect(p)

\* ImageUploader as the user drives it, for a conversion that
\* createConversion makes: files selected and removed, Upload All, and the
\* uploadImage calls of uploadFiles, one store statement at a time
NextUploader ==
    \/ \E p \in Slots : Len(conversions) < MaxRaceConv /\ CreateConversion(p)
    \/ Deliver
    \/ HandleFileSelect
    \/ RemovePendingUpload
    \/ ClearAll
    \/ UploaderDisabled
    \/ UploaderDemoMode
    \/ UploadAllClick
    \/ UploadMocked
    \/ \E p \in Slots : UploadRequest(p)
    \/ \E p \in Slots : UplInsert(p)
    \/ UploadRequestFails
    \/ UploadResolves
    \/ UploadRejects

SpecUploader == Init /\ [][NextUploader]_vars

\* ImageUploader uploading files that pass validateFile while
\* processConversion calls run: the uploadImage calls of uploadFiles and the
\* processConversion calls interleave at the granularity of store statements
NextUploadRace ==
    \/ \E p \in Slots : Len(conversions) < MaxRaceConv /\ CreateConversion(p)
    \/ \E p \in Slots : ProcAmongUploads(p)
    \/ \E p \in Slots : ProcSetProcessing(p)
    \/ \E p \in Slots : ProcSelectImages(p)
    \/ \E p \in Slots : ProcFailNoImages(p)
    \/ \E p \in Slots : ProcSleep(p)
    \/ \E p \in Slots : ProcComplete(p)
    \/ \E p \in Slots : ProcCatch(p)
    \/ Deliver
    \/ SelectAccepted
    \/ UploadAllClick
    \/ \E p \in Slots : UploadRequest(p)
    \/ \E p \in Slots : UplInsert(p)
    \/ UploadResolves
    \/ UploadRejects

SpecUploadRace == Init /\ [][NextUploadRace]_vars

\* ================================================================ claims
\* the call whose outcome is in `out` targeted an existing conversion
OnConversion(op) ==
    /\ out.op = op
    /\ out.snap.taken
    /\ out.id \in DOMAIN out.snap.conversions

StatusBefore == out.snap.conversions[out.id].status

StoreUntouched == conversions = out.snap.conversions /\ images = out.snap.images

StatusSteps ==
    {<<"pending", "processing">>, <<"processing", "completed">>, <<"processing", "failed">>}

\* C1: with calls executed one at a time, every change of a conversion's
\* stored status is pending->processing, processing->completed or
\* processing->failed; a completed or failed conversion keeps its status.
C1_StatusStateMachine ==
    [][\A id \in DOMAIN conversions :
          conversions'[id].status # conversions[id].status
             => <<conversions[id].status, conversions'[id].status>> \in StatusSteps]_vars

\* a processConversion call has run to its end on a conversion that was failed
\* when it was entered, while another conversion is completed
C1_Witness ==
    /\ OnConversion("processConversion")
    /\ StatusBefore = "failed"
    /\ \E id \in DOMAIN conversions : conversions[id].status = "completed"

\* C2: createConversion stores and returns a row with status pending, null
\* pdf_file_path, error_message and completed_at, and exactly the page_size
\* and orientation of the input; no existing conversion or image changes.
C2_CreatedPending ==
    out.op = "createConversion" =>
        /\ out.kind = "return"
        /\ out.val.status = "pending"
        /\ IsNull(out.val.pdf_file_path)
        /\ IsNull(out.val.error_message)
        /\ IsNull(out.val.completed_at)
        /\ out.val.page_size = out.page_size
        /\ out.val.orientation = out.orientation
        /\ conversions = Append(out.snap.conversions, out.val)
        /\ images = out.snap.images

\* a letter/landscape conversion was created while another conversion and
\* an image were already stored
C2_Witness ==
    /\ out.op = "createConversion"
    /\ out.page_size = "letter"
    /\ out.orientation = "landscape"
    /\ Len(out.snap.conversions) = 1
    /\ DOMAIN out.snap.images # {}

\* C3: updateConversion, uploadImage and reorderImages raise an error when
\* the target conversion is processing, completed or failed, and then no
\* conversion row and no image row is created, deleted or modified.
C3_NonPendingRejected ==
    \A op \in {"updateConversion", "uploadImage", "reorderImages"} :
        OnConversion(op) /\ StatusBefore \in {"processing", "completed", "failed"}
            => out.kind = "throw" /\ StoreUntouched

\* reorderImages, with a batch that names an image of the conversion, was
\* refused on a conversion left in processing
C3_Witness ==
    /\ OnConversion("reorderImages")
    /\ StatusBefore = "processing"
    /\ Len(out.image_orders) = 1
    /\ out.image_orders[1].image_id \in ImagesOf(images, out.id)
    /\ out.kind = "throw"

\* the images of a conversion with their order_index values
OrderOf(imgs, id) == [k \in ImagesOf(imgs, id) |-> imgs[k].order_index]

\* C4: with calls interleaving at statement granularity, once a conversion's
\* stored status is no longer pending its page_size, orientation, its set of
\* images and their order_index values never change.
C4_FrozenOnceNotPending ==
    [][\A id \in DOMAIN conversions :
          conversions[id].status # "pending"
             => /\ conversions'[id].page_size = conversions[id].page_size
                /\ conversions'[id].orientation = conversions[id].orientation
                /\ OrderOf(images', id) = OrderOf(images, id)]_vars

\* C5: processConversion on a pending conversion with at least one image, run
\* alone with the store working, leaves it completed with a pdf_file_path
\* and a completed_at and no error_message, returns that row, and changes
\* neither page_size, orientation nor any image.
C5_ProcessCompletes ==
    (/\ OnConversion("processConversion")
     /\ StatusBefore = "pending"
     /\ ImagesOf(out.snap.images, out.id) # {})
        => /\ out.kind = "return"
           /\ out.val = conversions[out.id]
           /\ conversions[out.id].status = "completed"
           /\ ~IsNull(conversions[out.id].pdf_file_path)
           /\ ~IsNull(conversions[out.id].completed_at)
           /\ IsNull(conversions[out.id].error_message)
           /\ conversions[out.id].page_size = out.snap.conversions[out.id].page_size
           /\ conversions[out.id].orientation = out.snap.conversions[out.id].orientation
           /\ images = out.snap.images

\* a pending conversion with two images was processed to the end
C5_Witness ==
    /\ OnConversion("processConversion")
    /\ StatusBefore = "pending"
    /\ Cardinality(ImagesOf(out.snap.images, out.id)) = 2
    /\ out.kind = "return"

\* a processConversion call found the conversion pending and without images
EnteredPendingEmpty(c) ==
    /\ c.op = "processConversion"
    /\ c.snap.taken
    /\ c.id \in DOMAIN c.snap.conversions
    /\ c.snap.conversions[c.id].status = "pending"
    /\ ImagesOf(c.snap.images, c.id) = {}

\* C6: processConversion on a pending conversion with no image leaves it
\* failed with error_message "No images found for conversion", never sets
\* pdf_file_path or completed_at, and raises an error instead of returning.
C6_NoImagesFails ==
    /\ (EnteredPendingEmpty(out)
          => /\ out.kind = "throw"
             /\ conversions[out.id].status = "failed"
             /\ conversions[out.id].error_message = Some(NoImagesMsg))
    /\ \A c \in {out} \cup {calls[p] : p \in Slots} :
          EnteredPendingEmpty(c)
             => /\ IsNull(conversions[c.id].pdf_file_path)
                /\ IsNull(conversions[c.id].completed_at)

\* a pending conversion without images was processed while another
\* conversion owns an image
C6_Witness ==
    /\ EnteredPendingEmpty(out)
    /\ out.kind = "throw"
    /\ DOMAIN images # {}

\* the statements of processConversion that follow the transition to processing
AfterProcessing ==
    {"proc_select_images", "proc_fail_no_images", "proc_throw_no_images", "proc_complete"}

ThrewAfterProcessing == out.op = "processConversion" /\ out.at \in AfterProcessing

\* C7: if a step of processConversion after the transition to
\* processing throws, then when the error reaches the caller the conversion
\* is stored failed with the thrown error's text, and the caller gets the
\* original error.
C7_Original ==
    ThrewAfterProcessing
        => /\ out.kind = "throw"
           /\ out.val = out.err
           /\ Exists(out.id)
           /\ conversions[out.id].status = "failed"
           /\ conversions[out.id].error_message = Some(out.err)

\* C8: processConversion on a completed conversion returns the existing row
\* and writes nothing, so a second process call yields completed with the
\* same pdf_file_path and completed_at.
C8_CompletedIsReturned ==
    OnConversion("processConversion") /\ StatusBefore = "completed"
        => /\ out.kind = "return"
           /\ out.val = out.snap.conversions[out.id]
           /\ out.val.status = "completed"
           /\ StoreUntouched

\* a second processConversion call returned on a conversion completed before
C8_Witness ==
    /\ OnConversion("processConversion")
    /\ StatusBefore = "completed"
    /\ ~IsNull(out.snap.conversions[out.id].pdf_file_path)
    /\ ImagesOf(images, out.id) # {}
    /\ out.kind = "return"

\* C9: even with processConversion calls interleaving at statement
\* granularity, pdf_file_path and completed_at are each assigned at most once
\* and a completed conversion never changes to another status.
C9_CompletedOnce ==
    [][\A id \in DOMAIN conversions :
          /\ ~IsNull(conversions[id].pdf_file_path)
                => conversions'[id].pdf_file_path = conversions[id].pdf_file_path
          /\ ~IsNull(conversions[id].completed_at)
                => conversions'[id].completed_at = conversions[id].completed_at
          /\ conversions[id].status = "completed"
                => conversions'[id].status = "completed"]_vars

\* C10: processConversion on a failed conversion raises an error whose
\* message is the "has already failed" prefix followed by the error_message
\* stored at that moment, on every further call, and never returns a row.
C10_FailedIsRefused ==
    OnConversion("processConversion") /\ StatusBefore = "failed"
        => /\ out.kind = "throw"
           /\ ~IsNull(out.snap.conversions[out.id].error_message)
           /\ LET stored == Get(out.snap.conversions[out.id].error_message)
              IN out.val = [stored EXCEPT !.wraps = <<out.id>> \o stored.wraps]

\* a further call: the stored message already carries one prefix
C10_Witness ==
    /\ OnConversion("processConversion")
    /\ StatusBefore = "failed"
    /\ Len(Get(out.snap.conversions[out.id].error_message).wraps) = 1
    /\ out.kind = "throw"

\* C11: with calls executed one at a time, in every reachable state each
\* conversion has a non-null pdf_file_path exactly when it is completed, and
\* a non-null completed_at exactly when it is completed.
C11_PathIffCompleted ==
    \A id \in DOMAIN conversions :
        /\ ~IsNull(conversions[id].pdf_file_path) <=> conversions[id].status = "completed"
        /\ ~IsNull(conversions[id].completed_at) <=> conversions[id].status = "completed"

\* one conversion is completed and another one is failed
C11_Witness ==
    /\ \E id \in DOMAIN conversions : conversions[id].status = "completed"
    /\ \E id \in DOMAIN conversions : conversions[id].status = "failed"

\* C12: in every reachable state, also inside a call and with calls
\* interleaving at statement granularity, a conversion with a non-null
\* error_message has status failed.
C12_ErrorOnlyWhenFailed ==
    \A id \in DOMAIN conversions :
        ~IsNull(conversions[id].error_message) => conversions[id].status = "failed"

\* a conversion was failed by one processConversion call while another call,
\* which had read it as pending, is about to move it to processing
C12_Witness ==
    \E id \in DOMAIN conversions, p \in Slots :
        /\ ~IsNull(conversions[id].error_message)
        /\ calls[p].pc = "proc_set_processing"
        /\ calls[p].id = id

\* the order_index values of a conversion's n images are exactly 0..n-1
Contiguous(imgs, id) ==
    {imgs[k].order_index : k \in ImagesOf(imgs, id)}
        = 0..(Cardinality(ImagesOf(imgs, id)) - 1)

\* C13: with calls executed one at a time, whenever no call is running the
\* order_index values of the n images of a pending conversion are exactly
\* {0, ..., n-1}.
C13_ContiguousIndices ==
    (\A p \in Slots : calls[p] = Idle)
        => \A id \in DOMAIN conversions :
              conversions[id].status = "pending" => Contiguous(images, id)

\* a deleteImage call, entered alone, has ended
Deleted == out.op = "deleteImage" /\ out.snap.taken

\* the image the call named was stored when the call was entered
ImageBefore == out.id \in DOMAIN out.snap.images

\* the conversion owning that image, and its status on entry
OwnerBefore == out.snap.images[out.id].conversion_id

OwnerStatusBefore == out.snap.conversions[OwnerBefore].status

\* C14: deleteImage on an image of a pending conversion whose indices are
\* exactly 0..n-1 removes exactly that image, returns true, and leaves the
\* other n-1 images with indices exactly 0..n-2 in the same relative order:
\* those below the deleted index keep theirs, those above lose exactly 1.
C14_DeleteCompacts ==
    (/\ Deleted
     /\ ImageBefore
     /\ OwnerStatusBefore = "pending"
     /\ Contiguous(out.snap.images, OwnerBefore))
        => LET old == out.snap.images
               cid == OwnerBefore
               x == old[out.id].order_index
           IN /\ out.kind = "return"
              /\ out.val = TRUE
              /\ DOMAIN images = DOMAIN old \ {out.id}
              /\ conversions = out.snap.conversions
              /\ \A k \in DOMAIN images :
                    /\ images[k].conversion_id = old[k].conversion_id
                    /\ old[k].conversion_id # cid
                          => images[k].order_index = old[k].order_index
                    /\ old[k].conversion_id = cid /\ old[k].order_index < x
                          => images[k].order_index = old[k].order_index
                    /\ old[k].conversion_id = cid /\ old[k].order_index > x
                          => images[k].order_index = old[k].order_index - 1
              /\ Contiguous(images, cid)
              /\ \A j, k \in ImagesOf(images, cid) :
                    old[j].order_index < old[k].order_index
                        <=> images[j].order_index < images[k].order_index

\* the image at index 1 of a conversion with four images at indices 0..3,
\* not uploaded in the order of their indices, was deleted: one image was
\* below it and two were above it
C14_Witness ==
    /\ Deleted
    /\ ImageBefore
    /\ OwnerStatusBefore = "pending"
    /\ Contiguous(out.snap.images, OwnerBefore)
    /\ Cardinality(ImagesOf(out.snap.images, OwnerBefore)) = 4
    /\ out.snap.images[out.id].order_index = 1
    /\ out.snap.images[4].order_index = 2
    /\ out.kind = "return"
    /\ out.val = TRUE

\* C15: deleteImage returns false without raising and leaves every
\* conversion row and image row unchanged when the image does not exist or
\* its owning conversion is processing, completed or failed.
C15_DeleteRefused ==
    (/\ Deleted
     /\ ImageBefore => OwnerStatusBefore \in {"processing", "completed", "failed"})
        => /\ out.kind = "return"
           /\ out.val = FALSE
           /\ StoreUntouched

\* deleteImage was refused on an image of a conversion left in processing
C15_Witness ==
    /\ Deleted
    /\ ImageBefore
    /\ OwnerStatusBefore = "processing"
    /\ out.val = FALSE

\* C16: a reorderImages call that fails (unknown conversion, an image_id
\* that does not belong to the conversion, two batch entries with the same
\* order_index) leaves the order_index of every stored image unchanged.
C16_FailedReorderWritesNothing ==
    (out.op = "reorderImages" /\ out.snap.taken /\ out.kind = "throw")
        => StoreUntouched

\* a batch naming both images of a conversion with the same order_index,
\* different from the stored index of the first, was rejected
C16_Witness ==
    /\ out.op = "reorderImages"
    /\ out.snap.taken
    /\ out.kind = "throw"
    /\ out.val = DuplicateIndicesMsg
    /\ Len(out.image_orders) = 2
    /\ out.image_orders[1].image_id # out.image_orders[2].image_id
    /\ out.image_orders[1].order_index
          # out.snap.images[out.image_orders[1].image_id].order_index

\* a reorderImages call, entered alone, has returned
Reordered == out.op = "reorderImages" /\ out.snap.taken /\ out.kind = "return"

\* the positions of the batch that name image k
Naming(b, k) == {j \in 1..Len(b) : b[j].image_id = k}

\* the index the batch gives for image k (its last entry for k)
IndexGiven(b, k) ==
    b[CHOOSE j \in Naming(b, k) : \A i \in Naming(b, k) : i <= j].order_index

\* C17: a successful reorderImages call sets the order_index of each image
\* named in the batch to the index given for it (the last one if the batch
\* names the image twice), leaves every other image unchanged, adds or
\* removes no image, and returns all images of the conversion sorted
\* ascending by order_index.
C17_ReorderApplies ==
    Reordered
        => LET old == out.snap.images
               b == out.image_orders
               mine == ImagesOf(images, out.id)
           IN /\ DOMAIN images = DOMAIN old
              /\ conversions = out.snap.conversions
              /\ \A k \in DOMAIN images :
                    IF Naming(b, k) # {}
                    THEN images[k] = [old[k] EXCEPT !.order_index = IndexGiven(b, k)]
                    ELSE images[k] = old[k]
              /\ Len(out.val) = Cardinality(mine)
              /\ {out.val[j].id : j \in 1..Len(out.val)} = mine
              /\ \A j \in 1..Len(out.val) : out.val[j] = images[out.val[j].id]
              /\ \A i, j \in 1..Len(out.val) :
                    i < j => out.val[i].order_index <= out.val[j].order_index

\* a batch naming one of the two images of a conversion changed its index
C17_Witness ==
    /\ Reordered
    /\ Len(out.image_orders) = 1
    /\ Cardinality(ImagesOf(images, out.id)) = 2
    /\ images # out.snap.images

\* no two images of the conversion share an order_index
DistinctIndices(imgs, id) ==
    \A j, k \in ImagesOf(imgs, id) :
        j # k => imgs[j].order_index # imgs[k].order_index

\* C18: after a successful reorderImages call on a conversion whose images
\* had pairwise distinct order_index values before the call, no two images
\* of that conversion share an order_index.
C18_NoSharedIndex ==
    Reordered /\ DistinctIndices(out.snap.images, out.id)
        => DistinctIndices(images, out.id)

\* the batch names every image of the conversion once, with its stored
\* order_index, and the stored indices are pairwise distinct
IsIdentityBatch(b, imgs, id) ==
    /\ DistinctIndices(imgs, id)
    /\ Len(b) = Cardinality(ImagesOf(imgs, id))
    /\ {b[j].image_id : j \in 1..Len(b)} = ImagesOf(imgs, id)
    /\ \A j \in 1..Len(b) : b[j].order_index = imgs[b[j].image_id].order_index

\* C19: reorderImages with the identity permutation, and with an empty
\* batch, succeeds on a pending conversion, leaves all stored indices
\* unchanged and returns the images in their order before the call.
C19_IdentityAndEmpty ==
    (/\ OnConversion("reorderImages")
     /\ StatusBefore = "pending"
     /\ \/ out.image_orders = <<>>
        \/ IsIdentityBatch(out.image_orders, out.snap.images, out.id))
        => /\ out.kind = "return"
           /\ StoreUntouched
           /\ \E s \in OrderedByIndex(out.snap.images, ImagesOf(out.snap.images, out.id)) :
                 out.val = Rows(out.snap.images, s)

\* the identity batch over two images, listed in descending index order
C19_Witness ==
    /\ OnConversion("reorderImages")
    /\ StatusBefore = "pending"
    /\ IsIdentityBatch(out.image_orders, out.snap.images, out.id)
    /\ Len(out.image_orders) = 2
    /\ out.image_orders[1].order_index > out.image_orders[2].order_index
    /\ out.kind = "return"

\* C20: updateConversion on a pending conversion changes only the supplied
\* fields: an omitted field keeps its value; status, pdf_file_path,
\* error_message, created_at and completed_at never change; with neither
\* field supplied the stored row is returned without a write; on an unknown
\* id it raises an error and changes nothing.
C20_UpdateFrame ==
    /\ (OnConversion("updateConversion") /\ StatusBefore = "pending")
          => LET old == out.snap.conversions[out.id]
                 new == conversions[out.id]
             IN /\ out.kind = "return"
                /\ out.val = new
                /\ new = [old EXCEPT
                             !.page_size = IF out.page_size = UNDEFINED THEN @
                                           ELSE out.page_size,
                             !.orientation = IF out.orientation = UNDEFINED THEN @
                                             ELSE out.orientation]
                /\ \A id \in DOMAIN conversions :
                      id # out.id => conversions[id] = out.snap.conversions[id]
                /\ DOMAIN conversions = DOMAIN out.snap.conversions
                /\ images = out.snap.images
    /\ (/\ out.op = "updateConversion"
        /\ out.snap.taken
        /\ out.id \notin DOMAIN out.snap.conversions)
          => out.kind = "throw" /\ StoreUntouched
    /\ \A p \in Slots :
          calls[p].op = "updateConversion"
             => calls[p].page_size # UNDEFINED \/ calls[p].orientation # UNDEFINED

\* only page_size was supplied, for a landscape conversion, and it changed
C20_Witness ==
    /\ OnConversion("updateConversion")
    /\ StatusBefore = "pending"
    /\ out.page_size # UNDEFINED
    /\ out.orientation = UNDEFINED
    /\ out.snap.conversions[out.id].orientation = "landscape"
    /\ out.snap.conversions[out.id].page_size # out.page_size
    /\ out.kind = "return"

\* C21: uploadImage raises an error and stores nothing when the conversion
\* id is unknown; on a pending conversion it stores exactly one new image
\* with the supplied conversion_id, metadata and order_index, changes no
\* other image and no conversion, and a following getConversion of that
\* conversion contains that image with that order_index.
C21_UploadStoresOne ==
    /\ (/\ out.op = "uploadImage"
        /\ out.snap.taken
        /\ out.id \notin DOMAIN out.snap.conversions)
          => out.kind = "throw" /\ StoreUntouched
    /\ (OnConversion("uploadImage") /\ StatusBefore = "pending")
          => /\ out.kind = "return"
             /\ out.val.conversion_id = out.id
             /\ out.val.metadata = out.metadata
             /\ out.val.order_index = out.order_index
             /\ out.val.id \notin DOMAIN out.snap.images
             /\ DOMAIN images = DOMAIN out.snap.images \cup {out.val.id}
             /\ images[out.val.id] = out.val
             /\ \A k \in DOMAIN out.snap.images : images[k] = out.snap.images[k]
             /\ conversions = out.snap.conversions
             /\ \A s \in OrderedByIndex(images, ImagesOf(images, out.id)) :
                   LET got == ConversionWithImages(conversions[out.id], Rows(images, s))
                   IN \E j \in 1..Len(got.images) :
                         /\ got.images[j].id = out.val.id
                         /\ got.images[j].order_index = out.order_index

\* a second image, with other metadata than the first, was uploaded to the
\* second conversion while the first conversion owns the first image
C21_Witness ==
    /\ OnConversion("uploadImage")
    /\ out.kind = "return"
    /\ out.id = 2
    /\ out.metadata = "scan.png"
    /\ \E k \in DOMAIN out.snap.images :
          /\ out.snap.images[k].conversion_id = 1
          /\ out.snap.images[k].metadata = "photo.jpeg"

\* C22: getConversion returns null exactly when no conversion with the id
\* exists; otherwise it returns the conversion's stored fields with exactly
\* the images whose conversion_id is that id, sorted ascending by
\* order_index; it modifies no stored state.
C22_GetConversionReads ==
    (out.op = "getConversion" /\ out.snap.taken)
        => /\ out.kind = "return"
           /\ StoreUntouched
           /\ IsNull(out.val) <=> out.id \notin DOMAIN conversions
           /\ ~IsNull(out.val)
                 => LET got == Get(out.val)
                        n == Len(got.images)
                    IN /\ got.conversion = conversions[out.id]
                       /\ n = Cardinality(ImagesOf(images, out.id))
                       /\ {got.images[j].id : j \in 1..n} = ImagesOf(images, out.id)
                       /\ \A j \in 1..n : got.images[j] = images[got.images[j].id]
                       /\ \A i, j \in 1..n :
                             i < j => got.images[i].order_index
                                         <= got.images[j].order_index

\* a conversion was read whose two images were stored in descending
\* order_index, while another conversion exists
C22_Witness ==
    /\ out.op = "getConversion"
    /\ out.snap.taken
    /\ ~IsNull(out.val)
    /\ Len(conversions) = 2
    /\ ImagesOf(images, out.id) = {1, 2}
    /\ images[1].order_index > images[2].order_index

\* C23: getPdfFile returns file content only when the conversion exists, is
\* completed, has a pdf_file_path and a file exists at that path; in every
\* other case it returns null rather than raising; it never modifies stored
\* state.
C23_PdfOnlyWhenReady ==
    (out.op = "getPdfFile" /\ out.snap.taken)
        => /\ out.kind = "return"
           /\ StoreUntouched
           /\ IF /\ out.id \in DOMAIN conversions
                 /\ conversions[out.id].status = "completed"
                 /\ ~IsNull(conversions[out.id].pdf_file_path)
                 /\ out.fileExists
              THEN out.val = Some(FileContent(Get(conversions[out.id].pdf_file_path)))
              ELSE IsNull(out.val)

\* C24: processConversion on a conversion stored as processing is not
\* rejected: with at least one image, and unless a store statement of the
\* call itself rejects, it ends completed with a pdf_file_path, keeping
\* page_size and orientation.
C24_ProcessingIsResumed ==
    (/\ OnConversion("processConversion")
     /\ StatusBefore = "processing"
     /\ ImagesOf(out.snap.images, out.id) # {}
     /\ ~(out.kind = "throw" /\ out.val = StoreErrorMsg))
        => /\ out.kind = "return"
           /\ out.val = conversions[out.id]
           /\ conversions[out.id].status = "completed"
           /\ ~IsNull(conversions[out.id].pdf_file_path)
           /\ conversions[out.id].page_size = out.snap.conversions[out.id].page_size
           /\ conversions[out.id].orientation = out.snap.conversions[out.id].orientation

\* a landscape conversion with an image, left in processing by an earlier
\* call, was processed to the end
C24_Witness ==
    /\ OnConversion("processConversion")
    /\ StatusBefore = "processing"
    /\ ImagesOf(out.snap.images, out.id) # {}
    /\ out.snap.conversions[out.id].orientation = "landscape"
    /\ out.kind = "return"

\* the conversions a deleteImage or reorderImages call targets
Targets ==
    IF out.op = "reorderImages" THEN {out.id}
    ELSE IF ImageBefore THEN {OwnerBefore}
    ELSE {}

\* C25: deleteImage and reorderImages never change the existence or the
\* order_index of an image of a conversion other than the one the call
\* targets (for deleteImage, the conversion owning the deleted image).
C25_OtherConversionsKept ==
    (out.op \in {"deleteImage", "reorderImages"} /\ out.snap.taken)
        => /\ \A k \in DOMAIN out.snap.images :
                 out.snap.images[k].conversion_id \notin Targets
                    => /\ k \in DOMAIN images
                       /\ images[k].conversion_id = out.snap.images[k].conversion_id
                       /\ images[k].order_index = out.snap.images[k].order_index
           /\ \A k \in DOMAIN images : k \in DOMAIN out.snap.images

\* an image at index 0 was deleted while an image of another conversion
\* has index 1
C25_Witness ==
    /\ Deleted
    /\ ImageBefore
    /\ out.val = TRUE
    /\ out.snap.images[out.id].order_index = 0
    /\ \E k \in DOMAIN images :
          /\ images[k].conversion_id # OwnerBefore
          /\ images[k].order_index = 1

\* C26: the order_index of every stored image is a non-negative integer in
\* every reachable state, also when deleteImage calls on the same
\* conversion interleave at statement granularity.
C26_IndexNonNegative ==
    \A k \in DOMAIN images : images[k].order_index \in Nat

\* two deleteImage calls on images of the same conversion are in flight,
\* one has deleted its row, and a stored image has index 0
C26_Witness ==
    /\ calls[1].op = "deleteImage"
    /\ calls[2].op = "deleteImage"
    /\ calls[1].row.conversion_id = calls[2].row.conversion_id
    /\ calls[1].row.order_index = 0
    /\ calls[2].row.order_index = 0
    /\ calls[1].pc = "del_update"
    /\ calls[2].pc = "del_update"
    /\ \E k \in DOMAIN images : images[k].order_index = 0

\* C27: under fairness and with store statements succeeding, every
\* processConversion call eventually returns or raises, and every conversion
\* moved to processing is eventually stored completed or failed.
C27_ProcessTerminates ==
    /\ \A p \in Slots :
          (calls[p].op = "processConversion") ~> (calls[p] = Idle)
    /\ \A id \in 1..MaxRaceConv :
          (Exists(id) /\ conversions[id].status = "processing")
             ~> (Exists(id) /\ conversions[id].status \in {"completed", "failed"})

\* two processConversion calls are in flight on a conversion stored as
\* processing, one of them waiting for its timer
C27_Witness ==
    /\ calls[1].op = "processConversion"
    /\ calls[2].op = "processConversion"
    /\ calls[1].id = calls[2].id
    /\ Exists(calls[1].id)
    /\ conversions[calls[1].id].status = "processing"
    /\ calls[1].pc = "proc_sleep"

\* C28: processConversion on a failed conversion leaves the stored row
\* unchanged: status stays failed and error_message after the call equals
\* error_message before the call.
C28_FailedRowKept ==
    OnConversion("processConversion") /\ StatusBefore = "failed"
        => /\ conversions[out.id].status = "failed"
           /\ conversions[out.id].error_message
                 = out.snap.conversions[out.id].error_message

\* C29: reorderImages checks its failure conditions in the order unknown
\* conversion, non-pending status, image_id not belonging to the
\* conversion, duplicate order_index in the batch, and reports the first
\* that applies.
C29_ChecksInOrder ==
    (out.op = "reorderImages" /\ out.snap.taken)
        => LET b == out.image_orders
               id == out.id
               foreign == {j \in 1..Len(b) :
                              b[j].image_id \notin ImagesOf(out.snap.images, id)}
               duplicate == \E i, j \in 1..Len(b) :
                               i # j /\ b[i].order_index = b[j].order_index
           IN IF id \notin DOMAIN out.snap.conversions
                THEN out.kind = "throw" /\ out.val = NotFoundMsg(id)
              ELSE IF StatusBefore # "pending"
                THEN out.kind = "throw" /\ out.val = CannotReorderMsg(StatusBefore)
              ELSE IF foreign # {}
                THEN /\ out.kind = "throw"
                     /\ \E j \in foreign :
                           out.val = ImageNotInConversionMsg(b[j].image_id, id)
              ELSE IF duplicate
                THEN out.kind = "throw" /\ out.val = DuplicateIndicesMsg
              ELSE out.kind = "return"

\* a batch that names a foreign image and repeats an order_index was sent
\* to a completed conversion and rejected for the status
C29_Witness ==
    /\ OnConversion("reorderImages")
    /\ StatusBefore = "completed"
    /\ Len(out.image_orders) = 2
    /\ out.image_orders[1].image_id \notin ImagesOf(images, out.id)
    /\ out.image_orders[1].order_index = out.image_orders[2].order_index
    /\ out.kind = "throw"
    /\ out.val = CannotReorderMsg("completed")

\* the batch names every image of the conversion at least once
NamesAll(b, imgs, id) == \A k \in ImagesOf(imgs, id) : Naming(b, k) # {}

\* C30: if a reorderImages batch names every image of the conversion at
\* least once and passes validation, then after the call the conversion's
\* images have pairwise distinct order_index values, whatever the indices
\* were before and even if an image_id appears more than once in the batch.
C30_FullBatchDistinct ==
    Reordered /\ NamesAll(out.image_orders, out.snap.images, out.id)
        => DistinctIndices(images, out.id)

\* two images that shared an index were reordered by a batch of three
\* entries, one image being named twice
C30_Witness ==
    /\ Reordered
    /\ NamesAll(out.image_orders, out.snap.images, out.id)
    /\ Cardinality(ImagesOf(images, out.id)) = 2
    /\ ~DistinctIndices(out.snap.images, out.id)
    /\ Len(out.image_orders) = 3

\* the calls that overlapped have all settled and the store is at rest
GroupSettled ==
    /\ hist.on
    /\ ~hist.more
    /\ \A p \in Slots : calls[p] = Idle
    /\ Len(hist.returned) = Len(hist.entered)

\* the group of overlapping calls was two deleteImage calls
TwoDeletes ==
    /\ GroupSettled
    /\ Len(hist.entered) = 2
    /\ \A k \in 1..2 : hist.entered[k].op = "deleteImage"

\* the images table after one deleteImage call of imageId that runs alone
\* on the table imgs
SingleDelete(imgs, imageId) ==
    IF \/ imageId \notin DOMAIN imgs
       \/ ~Exists(imgs[imageId].conversion_id)
       \/ conversions[imgs[imageId].conversion_id].status # "pending"
    THEN imgs
    ELSE ShiftDown(DeleteImageRow(imgs, imageId),
                   imgs[imageId].conversion_id, imgs[imageId].order_index)

\* C31: when two deleteImage calls for the same image interleave, at most
\* one of them returns true and the images table ends as a single delete of
\* that image would leave it
C31_DoubleDeleteActsOnce ==
    (TwoDeletes /\ hist.entered[1].id = hist.entered[2].id)
    => /\ ~(hist.returned[1].val = TRUE /\ hist.returned[2].val = TRUE)
       /\ images = SingleDelete(hist.images, hist.entered[1].id)

\* the two images the two deleteImage calls of the group were given
FirstDeleted == hist.entered[1].id

SecondDeleted == hist.entered[2].id

\* two deleteImage calls overlapped, given two different images of one
\* pending conversion whose indices were exactly 0..n-1
TwoDeletesOfContiguous ==
    /\ TwoDeletes
    /\ FirstDeleted # SecondDeleted
    /\ {FirstDeleted, SecondDeleted} \subseteq DOMAIN hist.images
    /\ hist.images[FirstDeleted].conversion_id = hist.images[SecondDeleted].conversion_id
    /\ Exists(hist.images[FirstDeleted].conversion_id)
    /\ conversions[hist.images[FirstDeleted].conversion_id].status = "pending"
    /\ Contiguous(hist.images, hist.images[FirstDeleted].conversion_id)

\* C32: when two deleteImage calls for two different images of the same
\* pending conversion interleave, starting from indices exactly 0..n-1, the
\* remaining n-2 images end with indices exactly 0..n-3 in their original
\* relative order
C32_TwoDeletesCompact ==
    TwoDeletesOfContiguous
    => LET cid == hist.images[FirstDeleted].conversion_id
           rest == ImagesOf(hist.images, cid) \ {FirstDeleted, SecondDeleted}
       IN /\ ImagesOf(images, cid) = rest
          /\ Contiguous(images, cid)
          /\ \A j, k \in rest :
                hist.images[j].order_index < hist.images[k].order_index
                => images[j].order_index < images[k].order_index

\* the images table once the entries k.. of batch b were written to imgs
RECURSIVE ApplyBatch(_, _, _, _)
ApplyBatch(imgs, cid, b, k) ==
    IF k > Len(b) THEN imgs
    ELSE ApplyBatch(SetOrderIndex(imgs, b[k].image_id, cid, b[k].order_index),
                    cid, b, k + 1)

\* the rows of conversion id in ascending order_index, in every order of ties
SortedRows(imgs, id) ==
    {Rows(imgs, s) : s \in OrderedByIndex(imgs, ImagesOf(imgs, id))}

\* a getConversion call has just returned the conversion that the
\* reorderImages call in slot q, which started alone and passed its checks,
\* is permuting: the indices are pairwise distinct before and after
ReadDuringPermutation(q) ==
    /\ out.op = "getConversion"
    /\ out.kind = "return"
    /\ ~IsNull(out.val)
    /\ hist.on
    /\ ~hist.more
    /\ Len(hist.entered) = 2
    /\ hist.entered[1] = [op |-> "reorderImages", id |-> out.id]
    /\ calls[q].op = "reorderImages"
    /\ calls[q].pc \in {"reo_update", "reo_select_updated"}
    /\ LET after == ApplyBatch(hist.images, out.id, calls[q].image_orders, 1)
       IN /\ DistinctIndices(hist.images, out.id)
          /\ DistinctIndices(after, out.id)
          /\ after # hist.images

\* C33: a getConversion call that runs concurrently with a reorderImages
\* call permuting the indices of a conversion never returns two images with
\* the same order_index; it returns the ordering before the reorder or the
\* ordering after it
C33_ReadSeesBeforeOrAfter ==
    \A q \in Slots :
       ReadDuringPermutation(q)
       => LET rows == Get(out.val).images
              after == ApplyBatch(hist.images, out.id, calls[q].image_orders, 1)
          IN /\ \A j, k \in 1..Len(rows) :
                   j # k => rows[j].order_index # rows[k].order_index
             /\ rows \in SortedRows(hist.images, out.id) \cup SortedRows(after, out.id)

\* the ids of the rows, in their order
IdsOf(rows) == [j \in 1..Len(rows) |-> rows[j].id]

\* the ids that batch b names, in its order
NamedBy(b) == [j \in 1..Len(b) |-> b[j].image_id]

\* the sequence s without the value x
Except(s, x) == SelectSeq(s, LAMBDA y : y # x)

\* batch b names each of the rows shown exactly once, with indices 0..n-1
CoversShown(b, shown) ==
    /\ Len(b) = Len(shown)
    /\ \A j \in 1..Len(b) : b[j].order_index = j - 1
    /\ \A k \in 1..Len(shown) :
          Cardinality({j \in 1..Len(b) : b[j].image_id = shown[k].id}) = 1

\* C34: every batch that moveImage or handleDrop passes to onImageReorder
\* names each displayed image exactly once with the indices 0..n-1;
\* moveImage swaps the image with its neighbour in the given direction and
\* keeps the others in place, handleDrop moves the dragged image to the drop
\* position and keeps the relative order of the others; no batch is sent
\* when disabled, when the move would leave the list, or when the image is
\* dropped on itself
C34_BatchesRearrangeShown ==
    LET e == preview.last IN
    e.by \in {"moveImage", "handleDrop"}
    => LET n == Len(e.shown)
           ids == IdsOf(e.shown)
       IN /\ e.disabled => IsNull(e.batch)
          /\ (e.by = "moveImage" /\ (e.to < 0 \/ e.to >= n)) => IsNull(e.batch)
          /\ (e.by = "handleDrop" /\ e.from = Some(e.to)) => IsNull(e.batch)
          /\ ~IsNull(e.batch)
             => LET b == Get(e.batch)
                    from == Get(e.from)
                IN /\ CoversShown(b, e.shown)
                   /\ b[e.to + 1].image_id = ids[from + 1]
                   /\ e.by = "moveImage"
                      => /\ e.to = IF e.direction = "up" THEN from - 1 ELSE from + 1
                         /\ b[from + 1].image_id = ids[e.to + 1]
                         /\ \A j \in 1..n \ {from + 1, e.to + 1} :
                               b[j].image_id = ids[j]
                   /\ e.by = "handleDrop"
                      => Except(NamedBy(b), ids[from + 1]) = Except(ids, ids[from + 1])

\* C34 witness: of three images shown, the first was dropped on the last and
\* the batch was sent
C34_Witness ==
    /\ preview.last.by = "handleDrop"
    /\ Len(preview.last.shown) = 3
    /\ preview.last.from = Some(0)
    /\ preview.last.to = 2
    /\ ~IsNull(preview.last.batch)

\* C37: ImagePreview has at most one onImageReorder request in flight at any
\* time, and isReordering is true exactly while that request is in flight
C37_OneReorderInFlight ==
    /\ Len(preview.requests) <= 1
    /\ preview.isReordering <=> preview.requests # <<>>

\* C35: the images that ImageUploader.uploadFiles uploads receive
\* order_index values distinct from those of the images already stored for
\* the conversion: after any number of upload batches the conversion's
\* indices are pairwise distinct
C35_UploadedIndicesDistinct ==
    \A j, k \in DOMAIN images :
       (j # k /\ images[j].conversion_id = uploader.conversionId
              /\ images[k].conversion_id = uploader.conversionId)
       => images[j].order_index # images[k].order_index

\* C36: when uploadFiles has ended, every image the backend stored during
\* that call has been handed to onImageUploaded and its file is no longer
\* pending, also when a request in the middle of the batch failed; no
\* pending file is ever stored a second time
C36_StoredAreReported ==
    /\ uploader.run.pc = "ended"
       => \A r \in uploader.run.storedNow :
             /\ r.image \in uploader.reported
             /\ \A j \in 1..Len(uploader.pendingUploads) :
                   uploader.pendingUploads[j].key # r.pending
    /\ \A a, b \in 1..Len(uploader.stored) :
          a # b => uploader.stored[a] # uploader.stored[b]

====
